---- MODULE Spec2Model ----
(***************************************************************************)
(* Model of the image-hosting backend (leisureea1/goimage):                *)
(*   - MetadataStore  (service package, response.go lines 82-210)          *)
(*   - ImageService   (service package, response.go lines 212-441)         *)
(*   - MIME sniffing  (image_processor.go lines 151-204)                   *)
(* Request handlers are goroutines: each process of the model runs one     *)
(* call at a time and the calls of different processes interleave at the   *)
(* points where they touch shared state (the mutex, the in-memory table,   *)
(* the two metadata files and the storage backend).                        *)
(***************************************************************************)
EXTENDS Integers, Sequences, FiniteSets, TLC

(***************************************************************************)
(* Bounds of the model.                                                    *)
(***************************************************************************)
NumProcs == 2      \* concurrently running request goroutines
NumIds   == 2      \* identifiers that may be in use
MaxCalls == 2      \* calls started in one run of the store specification
MaxTime  == 1      \* distinct readings of the wall clock

Procs == 1..NumProcs
NoProc == 0

IdNames == <<"u1", "u2", "u3", "u4", "u5", "u6">>
Ids == {IdNames[i] : i \in 1..NumIds}
Times == 1..MaxTime

(***************************************************************************)
(* Paths and URLs are sequences of string tokens, e.g.                     *)
(*   "2024/01/u1.webp"  is  <<"2024", "/", "01", "/", "u1", ".webp">>.     *)
(***************************************************************************)
EmptyPath == <<>>
MonthNames == <<"01", "02", "03", "04", "05", "06",
                "07", "08", "09", "10", "11", "12">>
YearTok(t) == "2024"
MonthTok(t) == MonthNames[((t - 1) % 12) + 1]

\* fmt.Sprintf("%s.webp", id)
FilenameOf(id) == <<id, ".webp">>
\* fmt.Sprintf("%d/%02d/%s", now.Year(), now.Month(), filename)
StoragePathOf_NoId(id, t) == <<YearTok(t), "/", MonthTok(t), "/", "image", ".webp">>
StoragePathOf(id, t) == <<YearTok(t), "/", MonthTok(t), "/">> \o FilenameOf(id)

\* LocalStorage joins the configured base URL with the key.
BaseURL == <<"/images">>
URLWith(base, key) == base \o <<"/">> \o key
URLOf(key) == URLWith(BaseURL, key)

(***************************************************************************)
(* model.Image and its JSON form.  StoragePath carries the tag json:"-",   *)
(* so the encoder leaves it out and the decoder leaves it at the zero      *)
(* value.                                                                  *)
(***************************************************************************)
JSONFields == {"ID", "URL", "OriginalFormat", "OriginalSize", "ProcessedSize",
               "Width", "Height", "CreatedAt", "Filename"}

Image(id, url, fmt, osize, psize, w, h, t, fname, spath) ==
    [ID |-> id, URL |-> url, OriginalFormat |-> fmt, OriginalSize |-> osize,
     ProcessedSize |-> psize, Width |-> w, Height |-> h, CreatedAt |-> t,
     Filename |-> fname, StoragePath |-> spath]

NoImage == Image("", EmptyPath, "", 0, 0, 0, 0, 0, EmptyPath, EmptyPath)

ToJSON(img) == [f \in JSONFields |-> img[f]]
FromJSON(j) == Image(j.ID, j.URL, j.OriginalFormat, j.OriginalSize,
                     j.ProcessedSize, j.Width, j.Height, j.CreatedAt,
                     j.Filename, EmptyPath)

\* A table maps identifiers to records (map[string]*model.Image).
EmptyTable == [i \in {} |-> NoImage]
Put_DropOthers(tbl, id, img) == [i \in {id} |-> img]
Put(tbl, id, img) == [i \in DOMAIN tbl \cup {id} |-> IF i = id THEN img ELSE tbl[i]]
Remove_All(tbl, id) == EmptyTable
Remove(tbl, id) == [i \in DOMAIN tbl \ {id} |-> tbl[i]]

\* json.MarshalIndent(s.images, "", "  ")
MarshalTable(tbl) == [i \in DOMAIN tbl |-> ToJSON(tbl[i])]

\* json.Unmarshal(data, &s.images): the existing map is reused, its entries
\* are kept, and every key of the JSON object gets a freshly decoded record.
UnmarshalInto(tbl, json) ==
    [i \in DOMAIN tbl \cup DOMAIN json |->
        IF i \in DOMAIN json THEN FromJSON(json[i]) ELSE tbl[i]]

(***************************************************************************)
(* The file system holds the metadata file and its temporary sibling.      *)
(* A file is absent, holds a complete JSON table, or holds a torn          *)
(* (truncated, unparsable) content.                                        *)
(***************************************************************************)
MetaFile == "metadata.json"
\* tmpFile := s.filePath + ".tmp"
TmpFile_InPlace == "metadata.json"
TmpFile == "metadata.json.tmp"
FileNames == {"metadata.json", "metadata.json.tmp"}

Absent == [k |-> "absent", tbl |-> MarshalTable(EmptyTable)]
Torn == [k |-> "torn", tbl |-> MarshalTable(EmptyTable)]
JSONFile(json) == [k |-> "json", tbl |-> json]

VARIABLES
    pc,         \* pc[p]: where goroutine p stands
    op,         \* op[p]: the arguments and locals of p's current call
    ret,        \* ret[p]: what p's last finished call returned
    mu,         \* MetadataStore.mu: the goroutine holding it, or NoProc
    images,     \* MetadataStore.images
    fs,         \* the metadata file and its temporary file
    storage,    \* keys of the objects held by the storage backend
    sys,        \* "up", "down" (crashed) or "fatal" (startup refused)
    ncalls,     \* calls started so far
    fileBefore, \* history: the metadata file when the last mutation began
    fileAfter,  \* history: the file content the last mutation is writing
    trace,      \* history: collaborators p's current call has invoked
    savedOk,    \* history: keys for which Storage.Save returned a locator
    compFailed, \* history: keys whose compensating Storage.Delete failed
    config,     \* config.Image: AllowedTypes and MaxSize
    issued,     \* identifiers uuid.New() has handed out
    pre         \* history: storage, table and metadata file when the
                \* current call of a sequential caller began

vars == <<pc, op, ret, mu, images, fs, storage, sys, ncalls,
          fileBefore, fileAfter, trace, savedOk, compFailed, config, issued, pre>>

storeVars == <<mu, images, fs, fileBefore, fileAfter>>
histVars == <<trace, savedOk, compFailed, pre>>
upVars == <<config, issued>>

\* what a call of a sequential caller finds when it begins
NoPre == <<{}, EmptyTable, Absent>>
Snapshot == <<storage, images, fs[MetaFile]>>

(***************************************************************************)
(* config.Image.  MaxSize is the configured limit in bytes, scaled down.   *)
(***************************************************************************)
MaxSize == 12
\* DefaultConfig: AllowedTypes: []string{"image/jpeg", "image/png", "image/webp"}
DefaultAllowedTypes == {"image/jpeg", "image/png", "image/webp"}
DefaultConfig == [AllowedTypes |-> DefaultAllowedTypes, MaxSize |-> MaxSize,
                  BaseURL |-> BaseURL,
                  Auth |-> [Enabled |-> FALSE, Tokens |-> <<>>]]
\* configurations a deployment may load from its YAML file
Configs == {DefaultConfig, [DefaultConfig EXCEPT !.AllowedTypes = {"image/jpeg", "image/png"}]}

(***************************************************************************)
(* Locals of a call and return values.                                     *)
(***************************************************************************)
NoData == <<>>
NoOp == [kind |-> "none", caller |-> "none", id |-> "", img |-> NoImage,
         json |-> MarshalTable(EmptyTable), err |-> "nil",
         data |-> NoData, declared |-> 0, mime |-> "", key |-> EmptyPath,
         url |-> EmptyPath, now |-> 0, addErr |-> "nil",
         sdel |-> "none", page |-> 0, pageSize |-> 0,
         route |-> "none", header |-> <<>>]

\* model.UploadResult, as Upload fills it from the record
UploadResult(img) ==
    [ID |-> img.ID, URL |-> img.URL, OriginalFormat |-> img.OriginalFormat,
     OriginalSize |-> img.OriginalSize, ProcessedSize |-> img.ProcessedSize,
     Width |-> img.Width, Height |-> img.Height, CreatedAt |-> img.CreatedAt]
NoResult == UploadResult(NoImage)

\* model.PaginatedList; panic: the call ended in a runtime panic instead
NoPage == [Items |-> <<>>, Total |-> 0, Page |-> 0, PageSize |-> 0,
           TotalPages |-> 0, panic |-> FALSE]

NoRet == [kind |-> "none", err |-> <<>>, found |-> FALSE, img |-> NoImage,
          n |-> 0, list |-> <<>>, hasRes |-> FALSE, res |-> NoResult,
          done |-> FALSE, pl |-> NoPage, ptr |-> "none", ptrs |-> <<>>,
          status |-> 0]

StoreOp(kind, caller, id, img) ==
    [NoOp EXCEPT !.kind = kind, !.caller = caller, !.id = id, !.img = img]

\* error values of the store: nil, or the error of the failed system call
ErrNil == <<>>
ErrIO == <<"io", "error">>
ErrNotExist == <<"file", "does", "not", "exist">>
ErrSyntax == <<"unexpected", "end", "of", "JSON", "input">>
StoreErr(e) ==
    CASE e = "nil" -> ErrNil
      [] e = "io" -> ErrIO
      [] e = "notexist" -> ErrNotExist
      [] OTHER -> ErrSyntax

(***************************************************************************)
(* MetadataStore                                                           *)
(***************************************************************************)
\* sync.Mutex.Lock returns only when no goroutine holds the mutex
LockFree_NoExclusion(m) == TRUE
LockFree(m) == m = NoProc

IsMutation(kind) == kind \in {"Add", "Delete"}

\* s.mu.Lock() at the head of Add, Delete, List, Get, Count, Reload
Lock(p) ==
    /\ sys = "up"
    /\ pc[p] = "lock"
    /\ LockFree(mu)
    /\ mu' = p
    /\ pc' = [pc EXCEPT ![p] = "body"]
    /\ fileBefore' = IF IsMutation(op[p].kind) THEN fs[MetaFile] ELSE fileBefore
    /\ fileAfter' = IF IsMutation(op[p].kind) THEN fs[MetaFile] ELSE fileAfter
    /\ UNCHANGED <<op, ret, images, fs, storage, sys, ncalls, histVars, upVars>>

\* Add: s.images[img.ID] = img
AddBody(p) ==
    /\ sys = "up"
    /\ pc[p] = "body" /\ op[p].kind = "Add"
    /\ images' = Put(images, op[p].img.ID, op[p].img)
    /\ fileAfter' = JSONFile(MarshalTable(images'))
    /\ pc' = [pc EXCEPT ![p] = "marshal"]
    /\ UNCHANGED <<op, ret, mu, fs, storage, sys, ncalls, fileBefore, histVars, upVars>>

\* Delete: delete(s.images, id)
DeleteBody(p) ==
    /\ sys = "up"
    /\ pc[p] = "body" /\ op[p].kind = "Delete"
    /\ images' = Remove(images, op[p].id)
    /\ fileAfter' = JSONFile(MarshalTable(images'))
    /\ pc' = [pc EXCEPT ![p] = "marshal"]
    /\ UNCHANGED <<op, ret, mu, fs, storage, sys, ncalls, fileBefore, histVars, upVars>>

\* saveLocked: data, err := json.MarshalIndent(s.images, "", "  ")
SaveMarshal(p) ==
    /\ sys = "up"
    /\ pc[p] = "marshal"
    /\ op' = [op EXCEPT ![p].json = MarshalTable(images)]
    /\ pc' = [pc EXCEPT ![p] = "wopen"]
    /\ UNCHANGED <<ret, storeVars, storage, sys, ncalls, histVars, upVars>>

\* saveLocked: os.WriteFile(tmpFile, ...) opens the file with O_TRUNC ...
SaveWriteOpen(p) ==
    /\ sys = "up"
    /\ pc[p] = "wopen"
    /\ \E ok \in BOOLEAN :
        IF ok
        THEN /\ fs' = [fs EXCEPT ![TmpFile] = Torn]
             /\ pc' = [pc EXCEPT ![p] = "wdata"]
             /\ op' = op
        ELSE /\ fs' = fs
             /\ pc' = [pc EXCEPT ![p] = "unlock"]
             /\ op' = [op EXCEPT ![p].err = "io"]
    /\ UNCHANGED <<ret, mu, images, storage, sys, ncalls,
                   fileBefore, fileAfter, histVars, upVars>>

\* ... and then writes the bytes; a failed write leaves a torn file behind
SaveWriteData(p) ==
    /\ sys = "up"
    /\ pc[p] = "wdata"
    /\ \E ok \in BOOLEAN :
        IF ok
        THEN /\ fs' = [fs EXCEPT ![TmpFile] = JSONFile(op[p].json)]
             /\ pc' = [pc EXCEPT ![p] = "rename"]
             /\ op' = op
        ELSE /\ fs' = fs
             /\ pc' = [pc EXCEPT ![p] = "unlock"]
             /\ op' = [op EXCEPT ![p].err = "io"]
    /\ UNCHANGED <<ret, mu, images, storage, sys, ncalls,
                   fileBefore, fileAfter, histVars, upVars>>

\* os.Rename(from, to): atomic replacement of `to` by `from`
Rename(f, from, to) ==
    IF from = to THEN f
    ELSE [n \in FileNames |-> IF n = to THEN f[from]
                              ELSE IF n = from THEN Absent ELSE f[n]]

\* saveLocked: os.Rename(tmpFile, s.filePath); on failure os.Remove(tmpFile)
SaveRename(p) ==
    /\ sys = "up"
    /\ pc[p] = "rename"
    /\ \E ok \in BOOLEAN :
        IF ok
        THEN /\ fs' = Rename(fs, TmpFile, MetaFile)
             /\ op' = [op EXCEPT ![p].err = "nil"]
        ELSE /\ fs' = [fs EXCEPT ![TmpFile] = Absent]
             /\ op' = [op EXCEPT ![p].err = "io"]
    /\ pc' = [pc EXCEPT ![p] = "unlock"]
    /\ UNCHANGED <<ret, mu, images, storage, sys, ncalls,
                   fileBefore, fileAfter, histVars, upVars>>

\* List: copy every record, then sort.Slice by CreatedAt.After.  The map is
\* walked in no fixed order and sort.Slice is not stable, so records with
\* equal creation times may come out in any order.
IsSortedDesc_Unsorted(l) == TRUE
IsSortedDesc(l) ==
    \A i, j \in 1..Len(l) : i < j => ~(l[j].CreatedAt > l[i].CreatedAt)
Listings(tbl) ==
    LET n == Cardinality(DOMAIN tbl)
        orders == {s \in [1..n -> DOMAIN tbl] :
                      \A i, j \in 1..n : i # j => s[i] # s[j]}
    IN  {l \in {[i \in 1..n |-> tbl[s[i]]] : s \in orders} : IsSortedDesc(l)}

\* imgCopy := *img; ... &imgCopy: what a pointer returned by List or Get
\* refers to, a fresh copy ("copy") or the record the table holds under id
CopyTarget_Shared(id) == id
CopyTarget(id) == "copy"

ListBody(p) ==
    /\ sys = "up"
    /\ pc[p] = "body" /\ op[p].kind = "List"
    /\ \E l \in Listings(images) :
        ret' = [ret EXCEPT ![p].list = l,
                           ![p].ptrs = [i \in 1..Len(l) |-> CopyTarget(l[i].ID)]]
    /\ pc' = [pc EXCEPT ![p] = "unlock"]
    /\ UNCHANGED <<op, storeVars, storage, sys, ncalls, histVars, upVars>>

\* Get: img, ok := s.images[id]; a copy is returned
GetBody(p) ==
    /\ sys = "up"
    /\ pc[p] = "body" /\ op[p].kind = "Get"
    /\ ret' = [ret EXCEPT ![p].found = op[p].id \in DOMAIN images,
                          ![p].img = IF op[p].id \in DOMAIN images
                                     THEN images[op[p].id] ELSE NoImage,
                          ![p].ptr = IF op[p].id \in DOMAIN images
                                     THEN CopyTarget(op[p].id) ELSE "none"]
    /\ pc' = [pc EXCEPT ![p] = "unlock"]
    /\ UNCHANGED <<op, storeVars, storage, sys, ncalls, histVars, upVars>>

\* Count: int64(len(s.images))
CountBody(p) ==
    /\ sys = "up"
    /\ pc[p] = "body" /\ op[p].kind = "Count"
    /\ ret' = [ret EXCEPT ![p].n = Cardinality(DOMAIN images)]
    /\ pc' = [pc EXCEPT ![p] = "unlock"]
    /\ UNCHANGED <<op, storeVars, storage, sys, ncalls, histVars, upVars>>

\* loadLocked: os.ReadFile, then json.Unmarshal into s.images.  The result:
\* the error ("nil" when the table was decoded) and the table afterwards.
LoadResult(tbl, f, readFails) ==
    IF f.k = "absent" THEN [err |-> "notexist", tbl |-> tbl]
    ELSE IF readFails THEN [err |-> "io", tbl |-> tbl]
    ELSE IF f.k = "torn" THEN [err |-> "syntax", tbl |-> tbl]
    ELSE [err |-> "nil", tbl |-> UnmarshalInto(tbl, f.tbl)]

\* Reload: s.loadLocked() under the lock
ReloadBody(p) ==
    /\ sys = "up"
    /\ pc[p] = "body" /\ op[p].kind = "Reload"
    /\ \E readFails \in BOOLEAN :
        LET r == LoadResult(images, fs[MetaFile], readFails) IN
        /\ images' = r.tbl
        /\ op' = [op EXCEPT ![p].err = r.err]
    /\ pc' = [pc EXCEPT ![p] = "unlock"]
    /\ UNCHANGED <<ret, mu, fs, storage, sys, ncalls,
                   fileBefore, fileAfter, histVars, upVars>>

\* where a call of the store returns to
AfterStore(caller) ==
    CASE caller = "upload" -> "u_afteradd"
      [] caller = "DeleteImage:Get" -> "d_afterget"
      [] caller = "DeleteImage:Delete" -> "d_afterdel"
      [] caller = "GetImage:Get" -> "g_afterget"
      [] caller = "ListImages:List" -> "l_afterlist"
      [] OTHER -> "idle"

\* defer s.mu.Unlock() / defer s.mu.RUnlock(): the holder of the mutex
\* after the deferred call has run
Release_Keep(m) == m
Release(m) == NoProc

\* the deferred s.mu.Unlock() and the return to the caller
Unlock(p) ==
    /\ sys = "up"
    /\ pc[p] = "unlock"
    /\ mu' = Release(mu)
    /\ pc' = [pc EXCEPT ![p] = AfterStore(op[p].caller)]
    /\ IF op[p].caller = "store"
       THEN /\ ret' = [ret EXCEPT ![p].err = StoreErr(op[p].err), ![p].done = TRUE]
            /\ op' = [op EXCEPT ![p].json = NoOp.json]
       ELSE /\ ret' = ret
            /\ op' = [op EXCEPT ![p].addErr = op[p].err, ![p].json = NoOp.json]
    /\ UNCHANGED <<images, fs, storage, sys, ncalls,
                   fileBefore, fileAfter, histVars, upVars>>

(***************************************************************************)
(* Direct callers of the store, the crash of the process and its restart.  *)
(***************************************************************************)
\* the records the callers of Add hand over
RecordOf(id, t) ==
    Image(id, URLOf(StoragePathOf(id, t)), "jpeg", 4, 2, 1, 1, t,
          FilenameOf(id), StoragePathOf(id, t))

StoreBegin(p, o, max) ==
    /\ sys = "up"
    /\ pc[p] = "idle"
    /\ ncalls < max
    /\ ncalls' = ncalls + 1
    /\ op' = [op EXCEPT ![p] = o]
    /\ ret' = [ret EXCEPT ![p] = [NoRet EXCEPT !.kind = o.kind]]
    /\ pc' = [pc EXCEPT ![p] = "lock"]
    /\ trace' = [trace EXCEPT ![p] = <<>>]
    /\ UNCHANGED <<storeVars, storage, sys, savedOk, compFailed, upVars>>

StoreCall(p, o) == StoreBegin(p, o, MaxCalls) /\ UNCHANGED pre

CallAdd(p) ==
    \E id \in Ids, t \in Times : StoreCall(p, StoreOp("Add", "store", id, RecordOf(id, t)))
CallDelete(p) == \E id \in Ids : StoreCall(p, StoreOp("Delete", "store", id, NoImage))
CallGet(p) == \E id \in Ids : StoreCall(p, StoreOp("Get", "store", id, NoImage))
CallList(p) == StoreCall(p, StoreOp("List", "store", "", NoImage))
CallCount(p) == StoreCall(p, StoreOp("Count", "store", "", NoImage))
CallReload(p) == StoreCall(p, StoreOp("Reload", "store", "", NoImage))

\* the process dies: memory and goroutines are gone, the files stay
Crash ==
    /\ sys = "up"
    /\ sys' = "down"
    /\ pc' = [p \in Procs |-> "idle"]
    /\ op' = [p \in Procs |-> NoOp]
    /\ ret' = [p \in Procs |-> NoRet]
    /\ trace' = [p \in Procs |-> <<>>]
    /\ mu' = NoProc
    /\ images' = EmptyTable
    /\ UNCHANGED <<fs, storage, ncalls, fileBefore, fileAfter, savedOk, compFailed,
                   upVars, pre>>

\* NewMetadataStore: load into an empty map; a missing file is not an error,
\* any other error makes the construction fail
StartupWith_Lenient(f, readFails) ==
    [sys |-> "up", tbl |-> LoadResult(EmptyTable, f, readFails).tbl]
StartupWith(f, readFails) ==
    LET r == LoadResult(EmptyTable, f, readFails) IN
    [sys |-> IF r.err \in {"nil", "notexist"} THEN "up" ELSE "fatal", tbl |-> r.tbl]
\* a startup whose read of an existing file succeeds
Startup(f) == StartupWith(f, FALSE)

Restart ==
    /\ sys = "down"
    /\ sys' = Startup(fs[MetaFile]).sys
    /\ images' = Startup(fs[MetaFile]).tbl
    /\ UNCHANGED <<pc, op, ret, mu, fs, storage, ncalls,
                   fileBefore, fileAfter, histVars, upVars>>

StoreSteps(p) ==
    \/ Lock(p) \/ AddBody(p) \/ DeleteBody(p) \/ ListBody(p) \/ GetBody(p)
    \/ CountBody(p) \/ ReloadBody(p)
    \/ SaveMarshal(p) \/ SaveWriteOpen(p) \/ SaveWriteData(p) \/ SaveRename(p)
    \/ Unlock(p)

Init ==
    /\ pc = [p \in Procs |-> "idle"]
    /\ op = [p \in Procs |-> NoOp]
    /\ ret = [p \in Procs |-> NoRet]
    /\ mu = NoProc
    /\ images = EmptyTable
    /\ fs = [n \in FileNames |-> Absent]
    /\ storage = {}
    /\ sys = "up"
    /\ ncalls = 0
    /\ fileBefore = Absent
    /\ fileAfter = Absent
    /\ trace = [p \in Procs |-> <<>>]
    /\ savedOk = {}
    /\ compFailed = {}
    /\ config = DefaultConfig
    /\ issued = {}
    /\ pre = NoPre

(***************************************************************************)
(* SpecStore: goroutines call the MetadataStore directly; the process may  *)
(* crash and restart at any point.                                         *)
(***************************************************************************)
NextStore ==
    \/ \E p \in Procs :
        \/ CallAdd(p) \/ CallDelete(p) \/ CallGet(p) \/ CallList(p)
        \/ CallCount(p) \/ CallReload(p)
        \/ StoreSteps(p)
    \/ Crash
    \/ Restart

SpecStore == Init /\ [][NextStore]_vars

(***************************************************************************)
(* Uploaded bytes.  The orchestrator reads only the magic prefix and the   *)
(* length of an upload; the inputs are the prefixes below, as they are or  *)
(* padded with zero bytes up to and just over the configured limit.        *)
(***************************************************************************)
JPEGHeader == <<255, 216, 255, 224>>
PNGHeader == <<137, 80, 78, 71, 13, 10, 26, 10>>
WebPHeader == <<82, 73, 70, 70, 0, 0, 0, 0, 87, 69, 66, 80>>
ShortJPEG == <<255, 216, 255>>
HalfPNG == <<137, 80, 78, 71>>
GIFHeader == <<71, 73, 70, 56>>
Headers == {JPEGHeader, PNGHeader, WebPHeader, ShortJPEG, HalfPNG, GIFHeader}

Pad(h, n) == [i \in 1..n |-> IF i <= Len(h) THEN h[i] ELSE 0]
Lengths(h) == {n \in {Len(h), MaxSize, MaxSize + 1} : n >= Len(h)}
Files == UNION {{Pad(h, n) : n \in Lengths(h)} : h \in Headers}
\* the size the multipart header declares; it need not be the real length
DeclaredSizes == {1, MaxSize + 1}

\* detectMimeFromHeader
detectMimeFromHeader(header) ==
    IF Len(header) < 4 THEN "application/octet-stream"
    ELSE IF header[1] = 255 /\ header[2] = 216 /\ header[3] = 255 THEN "image/jpeg"
    ELSE IF /\ Len(header) >= 8
            /\ header[1] = 137 /\ header[2] = 80 /\ header[3] = 78 /\ header[4] = 71
            /\ header[5] = 13 /\ header[6] = 10 /\ header[7] = 26 /\ header[8] = 10
         THEN "image/png"
    ELSE IF /\ Len(header) >= 12
            /\ header[1] = 82 /\ header[2] = 73 /\ header[3] = 70 /\ header[4] = 70
            /\ header[9] = 87 /\ header[10] = 69 /\ header[11] = 66 /\ header[12] = 80
         THEN "image/webp"
    ELSE "application/octet-stream"

\* ValidateMimeType
ValidateMimeType_AcceptAll(mimeType, allowedTypes) == TRUE
ValidateMimeType(mimeType, allowedTypes) == mimeType \in allowedTypes

\* Upload step 3: int64(len(data)) > s.config.Image.MaxSize
TooLarge_Inclusive(n, max) == n >= max
TooLarge(n, max) == n > max

\* mimeTypeToFormat
mimeTypeToFormat(mimeType) ==
    CASE mimeType = "image/jpeg" -> "jpeg"
      [] mimeType = "image/png" -> "png"
      [] mimeType = "image/webp" -> "webp"
      [] OTHER -> "unknown"

\* ImageProcessor.Process: decodeImage refuses every type but the three it
\* knows; for those the decoder or the encoder may fail on the content.
ProcessOutcomes(mimeType) ==
    IF mimeType \in {"image/jpeg", "image/png", "image/webp"}
    THEN {"ok", "decode", "encode"}
    ELSE {"decode"}
ProcessResult == [Data |-> <<7, 7>>, Width |-> 2, Height |-> 1]

(***************************************************************************)
(* The picture a file holds.  A file is its magic bytes followed by three  *)
(* bytes that stand for what the decoders read from the content: the EXIF  *)
(* state (NoExif: no EXIF block; NoTag: a block without the Orientation    *)
(* tag; any other value: the tag's value), then the width above MinWidth   *)
(* and the height above MinHeight.  Bytes past the end of the file read as *)
(* 0.  A pixel is named by its place <<x, y>> in the decoded grid, so a    *)
(* grid tells where each of its pixels came from.                          *)
(***************************************************************************)
NoExif == 0
NoTag == 255
MinWidth == 2
MinHeight == 1

ByteAt(data, i) == IF i <= Len(data) THEN data[i] ELSE 0
HeaderLen(format) ==
    CASE format = "jpeg" -> Len(JPEGHeader)
      [] format = "png" -> Len(PNGHeader)
      [] OTHER -> Len(WebPHeader)

\* image.Rectangle of a grid and its Dx(), Dy()
Coords(w, h) == (0..(w - 1)) \X (0..(h - 1))
Grid(w, h, at) == [w |-> w, h |-> h, px |-> [c \in Coords(w, h) |-> at[c]]]

\* decodeImage: jpeg.Decode / png.Decode / webp.Decode by MIME type
decodeImage(data, mimeType) ==
    LET off == HeaderLen(mimeTypeToFormat(mimeType))
        w == MinWidth + ByteAt(data, off + 2)
        h == MinHeight + ByteAt(data, off + 3)
    IN Grid(w, h, [c \in Coords(w, h) |-> c])

\* exif.Decode, x.Get(exif.Orientation), orientTag.Int(0)
ExifOrientation(data) == ByteAt(data, HeaderLen("jpeg") + 1)

\* the imaging library's transforms; rotations are counter-clockwise
FlipH(img) ==
    Grid(img.w, img.h, [c \in Coords(img.w, img.h) |-> img.px[<<img.w - 1 - c[1], c[2]>>]])
FlipV(img) ==
    Grid(img.w, img.h, [c \in Coords(img.w, img.h) |-> img.px[<<c[1], img.h - 1 - c[2]>>]])
Rotate180(img) ==
    Grid(img.w, img.h,
         [c \in Coords(img.w, img.h) |-> img.px[<<img.w - 1 - c[1], img.h - 1 - c[2]>>]])
Transpose(img) ==
    Grid(img.h, img.w, [c \in Coords(img.h, img.w) |-> img.px[<<c[2], c[1]>>]])
Transverse(img) ==
    Grid(img.h, img.w,
         [c \in Coords(img.h, img.w) |-> img.px[<<img.w - 1 - c[2], img.h - 1 - c[1]>>]])
Rotate90(img) ==
    Grid(img.h, img.w, [c \in Coords(img.h, img.w) |-> img.px[<<img.w - 1 - c[2], c[1]>>]])
Rotate270(img) ==
    Grid(img.h, img.w, [c \in Coords(img.h, img.w) |-> img.px[<<c[2], img.h - 1 - c[1]>>]])

\* fixOrientation: a failing exif.Decode, Get or Int returns img as it is
fixOrientation_QuarterTurnsSwapped(data, img) ==
    LET orientation == ExifOrientation(data) IN
    IF orientation \in {NoExif, NoTag} THEN img
    ELSE CASE orientation = 2 -> FlipH(img)
           [] orientation = 3 -> Rotate180(img)
           [] orientation = 4 -> FlipV(img)
           [] orientation = 5 -> Transpose(img)
           [] orientation = 6 -> Rotate90(img)
           [] orientation = 7 -> Transverse(img)
           [] orientation = 8 -> Rotate270(img)
           [] OTHER -> img
fixOrientation(data, img) ==
    LET orientation == ExifOrientation(data) IN
    IF orientation \in {NoExif, NoTag} THEN img
    ELSE CASE orientation = 2 -> FlipH(img)
           [] orientation = 3 -> Rotate180(img)
           [] orientation = 4 -> FlipV(img)
           [] orientation = 5 -> Transpose(img)
           [] orientation = 6 -> Rotate270(img)
           [] orientation = 7 -> Transverse(img)
           [] orientation = 8 -> Rotate90(img)
           [] OTHER -> img

\* Process, lines 52-57: the grid that goes to the encoder
Oriented(data, mimeType) ==
    LET img == decodeImage(data, mimeType) IN
    IF mimeTypeToFormat(mimeType) = "jpeg" THEN fixOrientation(data, img) ELSE img

\* Process, lines 59-70: the result of a call in which nothing failed
Process(data, mimeType) ==
    LET img == Oriented(data, mimeType) IN
    [Data |-> ProcessResult.Data, Width |-> img.w, Height |-> img.h]

(***************************************************************************)
(* Errors are messages (fmt.Errorf); a message is a sequence of words.     *)
(***************************************************************************)
Wrap(msg, inner) == msg \o <<":">> \o inner
ErrRead == Wrap(<<"failed", "to", "read", "file">>, ErrIO)
ErrInvalidFileType(mimeType) == <<"invalid", "file", "type", ":", mimeType>>
ErrFileTooLarge == <<"file", "too", "large", ":", "%d", "bytes", "(max:", "%d)">>
ErrDecode == Wrap(<<"failed", "to", "decode", "image">>, <<"decoder", "error">>)
ErrEncode == Wrap(<<"failed", "to", "encode", "webp">>, <<"encoder", "error">>)
ErrProcess(outcome) ==
    Wrap(<<"failed", "to", "process", "image">>,
         IF outcome = "decode" THEN ErrDecode ELSE ErrEncode)
ErrStorage == Wrap(<<"failed", "to", "save", "file">>, <<"storage", "error">>)
ErrMetadata(e) == Wrap(<<"failed", "to", "save", "metadata">>, StoreErr(e))

HasPrefix(msg, prefix) == Len(msg) >= Len(prefix) /\ SubSeq(msg, 1, Len(prefix)) = prefix
\* the failure kind a returned error stands for
ErrKind(err) ==
    IF err = ErrNil THEN "none"
    ELSE IF HasPrefix(err, <<"invalid", "file", "type">>) THEN "InvalidFileType"
    ELSE IF HasPrefix(err, <<"file", "too", "large">>) THEN "FileTooLarge"
    ELSE IF HasPrefix(err, <<"failed", "to", "process", "image">>) THEN "ProcessingFailed"
    ELSE IF HasPrefix(err, <<"failed", "to", "save", "file">>) THEN "StorageFailed"
    ELSE IF HasPrefix(err, <<"failed", "to", "save", "metadata">>) THEN "MetadataFailed"
    ELSE "other"

\* the handler's contains(s, substr), on words
Contains(msg, sub) ==
    \E i \in 0..(Len(msg) - Len(sub)) : SubSeq(msg, i + 1, i + Len(sub)) = sub

\* model.Code...: the error codes of the HTTP API
CodeInternalError == 500
CodeInvalidFileType == 1001
CodeFileTooLarge == 1002
CodeProcessingFailed == 1003
CodeStorageFailed == 1004

\* ImageHandler.Upload: the error code chosen from the message of the error
UploadErrorCode(errMsg) ==
    IF Contains(errMsg, <<"invalid", "file", "type">>) THEN CodeInvalidFileType
    ELSE IF Contains(errMsg, <<"file", "too", "large">>) THEN CodeFileTooLarge
    ELSE IF Contains(errMsg, <<"failed", "to", "process">>) THEN CodeProcessingFailed
    ELSE IF Contains(errMsg, <<"failed", "to", "save">>) THEN CodeStorageFailed
    ELSE CodeInternalError

(***************************************************************************)
(* Storage: Save(key, content) -> locator, Delete(key) -> ok | not found | *)
(* error.  A failed Save persists nothing; a failed Delete removes nothing.*)
(***************************************************************************)
StorageSave(st, key, ok) == IF ok THEN st \cup {key} ELSE st
DeleteOutcomes(st, key) == IF key \in st THEN {"ok", "error"} ELSE {"notfound", "error"}
StorageDelete(st, key, outcome) == IF outcome = "ok" THEN st \ {key} ELSE st

(***************************************************************************)
(* ImageService.Upload                                                     *)
(***************************************************************************)
Called(name, key) == [call |-> name, key |-> key]

UploadFailed(err) ==
    [NoRet EXCEPT !.kind = "Upload", !.err = err, !.done = TRUE]
UploadOk(img) ==
    [NoRet EXCEPT !.kind = "Upload", !.done = TRUE, !.hasRes = TRUE,
                  !.res = UploadResult(img)]

\* a request handler calls Upload(ctx, file, header.Size)
UploadBegin(p, f, declared) ==
    /\ sys = "up"
    /\ pc[p] = "idle"
    /\ ncalls < NumIds
    /\ ncalls' = ncalls + 1
    /\ op' = [op EXCEPT ![p] = [NoOp EXCEPT !.kind = "Upload", !.caller = "upload",
                                           !.data = f, !.declared = declared]]
    /\ ret' = [ret EXCEPT ![p] = [NoRet EXCEPT !.kind = "Upload"]]
    /\ pc' = [pc EXCEPT ![p] = "u_start"]
    /\ trace' = [trace EXCEPT ![p] = <<>>]
    /\ UNCHANGED <<storeVars, storage, sys, savedOk, compFailed, upVars>>

UploadCall(p, f, declared) == UploadBegin(p, f, declared) /\ UNCHANGED pre

\* Upload steps 1-3: io.ReadAll, the MIME check, the size check
UValidate(p) ==
    /\ sys = "up"
    /\ pc[p] = "u_start"
    /\ \E readOk \in BOOLEAN :
        LET mimeType == detectMimeFromHeader(op[p].data) IN
        IF ~readOk
        THEN /\ ret' = [ret EXCEPT ![p] = UploadFailed(ErrRead)]
             /\ pc' = [pc EXCEPT ![p] = "idle"]
             /\ op' = [op EXCEPT ![p].err = "io"]
        ELSE IF ~ValidateMimeType(mimeType, config.AllowedTypes)
        THEN /\ ret' = [ret EXCEPT ![p] = UploadFailed(ErrInvalidFileType(mimeType))]
             /\ pc' = [pc EXCEPT ![p] = "idle"]
             /\ op' = [op EXCEPT ![p].mime = mimeType]
        ELSE IF TooLarge(Len(op[p].data), config.MaxSize)
        THEN /\ ret' = [ret EXCEPT ![p] = UploadFailed(ErrFileTooLarge)]
             /\ pc' = [pc EXCEPT ![p] = "idle"]
             /\ op' = [op EXCEPT ![p].mime = mimeType]
        ELSE /\ ret' = ret
             /\ pc' = [pc EXCEPT ![p] = "u_process"]
             /\ op' = [op EXCEPT ![p].mime = mimeType]
    /\ UNCHANGED <<storeVars, storage, sys, ncalls, histVars, upVars>>

\* uuid.New().String(): a random version-4 UUID, which repeats none of the
\* identifiers handed out before.  Identifiers are opaque, so the model
\* hands out the first name that is not in use.
NewUUID(used) == IdNames[CHOOSE i \in 1..Len(IdNames) :
                             /\ IdNames[i] \notin used
                             /\ \A j \in 1..(i - 1) : IdNames[j] \in used]

\* Upload steps 4-5: Process, then time.Now(), uuid.New() and the storage key
UProcess(p) ==
    /\ sys = "up"
    /\ pc[p] = "u_process"
    /\ trace' = [trace EXCEPT ![p] = Append(@, Called("Process", EmptyPath))]
    /\ \E outcome \in ProcessOutcomes(op[p].mime), now \in Times :
        LET id == NewUUID(issued) IN
        IF outcome # "ok"
        THEN /\ ret' = [ret EXCEPT ![p] = UploadFailed(ErrProcess(outcome))]
             /\ pc' = [pc EXCEPT ![p] = "idle"]
             /\ UNCHANGED <<op, issued>>
        ELSE /\ ret' = ret
             /\ pc' = [pc EXCEPT ![p] = "u_save"]
             /\ op' = [op EXCEPT ![p].now = now, ![p].id = id,
                                 ![p].key = StoragePathOf(id, now)]
             /\ issued' = issued \cup {id}
    /\ UNCHANGED <<storeVars, storage, sys, ncalls, savedOk, compFailed, config, pre>>

\* Upload step 6: url, err := s.storage.Save(...); if err != nil { return }
SaveFailed_Ignored(ok) == FALSE
SaveFailed(ok) == ~ok

\* Upload steps 7-8: the record
BuildImage_NoStoragePath(id, url, mimeType, originalSize, result, now, storagePath) ==
    Image(id, url, mimeTypeToFormat(mimeType), originalSize, Len(result.Data),
          result.Width, result.Height, now, FilenameOf(id), EmptyPath)
BuildImage(id, url, mimeType, originalSize, result, now, storagePath) ==
    Image(id, url, mimeTypeToFormat(mimeType), originalSize, Len(result.Data),
          result.Width, result.Height, now, FilenameOf(id), storagePath)

\* Upload steps 6-9: Save, build the record, call s.metadata.Add(img)
USave(p) ==
    /\ sys = "up"
    /\ pc[p] = "u_save"
    /\ \E ok \in BOOLEAN :
        LET url == IF ok THEN URLWith(config.BaseURL, op[p].key) ELSE EmptyPath
            img == BuildImage(op[p].id, url, op[p].mime, op[p].declared,
                              Process(op[p].data, op[p].mime), op[p].now, op[p].key)
        IN
        /\ storage' = StorageSave(storage, op[p].key, ok)
        /\ savedOk' = IF ok THEN savedOk \cup {op[p].key} ELSE savedOk
        /\ IF SaveFailed(ok)
           THEN /\ ret' = [ret EXCEPT ![p] = UploadFailed(ErrStorage)]
                /\ pc' = [pc EXCEPT ![p] = "idle"]
                /\ op' = op
                /\ trace' = [trace EXCEPT ![p] = Append(@, Called("Save", op[p].key))]
           ELSE /\ ret' = ret
                /\ pc' = [pc EXCEPT ![p] = "lock"]
                /\ op' = [op EXCEPT ![p].kind = "Add", ![p].url = url, ![p].img = img]
                /\ trace' = [trace EXCEPT ![p] =
                                @ \o <<Called("Save", op[p].key),
                                       Called("Add", img.StoragePath)>>]
    /\ UNCHANGED <<storeVars, sys, ncalls, compFailed, upVars, pre>>

\* Upload step 9, the failure path: s.storage.Delete(ctx, storagePath)
CompensatingCalls_None(storagePath) == <<>>
CompensatingCalls(storagePath) == <<Called("Delete", storagePath)>>

\* Upload step 9 after Add has returned, and the return of Upload
UAfterAdd(p) ==
    /\ sys = "up"
    /\ pc[p] = "u_afteradd"
    /\ pc' = [pc EXCEPT ![p] = "idle"]
    /\ IF op[p].addErr # "nil"
       THEN LET calls == CompensatingCalls(op[p].key) IN
            /\ ret' = [ret EXCEPT ![p] = UploadFailed(ErrMetadata(op[p].addErr))]
            /\ trace' = [trace EXCEPT ![p] = @ \o calls]
            /\ IF calls = <<>>
               THEN UNCHANGED <<storage, compFailed>>
               ELSE \E outcome \in DeleteOutcomes(storage, calls[1].key) :
                      /\ storage' = StorageDelete(storage, calls[1].key, outcome)
                      /\ compFailed' = IF outcome = "error"
                                       THEN compFailed \cup {calls[1].key}
                                       ELSE compFailed
       ELSE /\ ret' = [ret EXCEPT ![p] = UploadOk(op[p].img)]
            /\ UNCHANGED <<trace, storage, compFailed>>
    /\ UNCHANGED <<op, storeVars, sys, ncalls, savedOk, upVars, pre>>

UploadSteps(p) == UValidate(p) \/ UProcess(p) \/ USave(p) \/ UAfterAdd(p)

\* the store steps an Upload runs through inside s.metadata.Add
AddSteps(p) ==
    \/ Lock(p) \/ AddBody(p)
    \/ SaveMarshal(p) \/ SaveWriteOpen(p) \/ SaveWriteData(p) \/ SaveRename(p)
    \/ Unlock(p)

(***************************************************************************)
(* SpecUpload: concurrent Upload calls on an initially empty store, no     *)
(* DeleteImage and no crash.                                               *)
(***************************************************************************)
ConcFiles == {JPEGHeader, GIFHeader}

NextUpload ==
    \E p \in Procs :
        \/ \E f \in ConcFiles : UploadCall(p, f, Len(f))
        \/ UploadSteps(p)
        \/ AddSteps(p)

SpecUpload == Init /\ [][NextUpload]_vars

(***************************************************************************)
(* SpecValidate: one goroutine uploads one file after the other, every     *)
(* input, declared size and configuration.                                 *)
(***************************************************************************)
Main == CHOOSE p \in Procs : \A q \in Procs : p <= q

InitValidate ==
    /\ pc = [p \in Procs |-> "idle"]
    /\ op = [p \in Procs |-> NoOp]
    /\ ret = [p \in Procs |-> NoRet]
    /\ mu = NoProc
    /\ images = EmptyTable
    /\ fs = [n \in FileNames |-> Absent]
    /\ storage = {}
    /\ sys = "up"
    /\ ncalls = 0
    /\ fileBefore = Absent
    /\ fileAfter = Absent
    /\ trace = [p \in Procs |-> <<>>]
    /\ savedOk = {}
    /\ compFailed = {}
    /\ config \in Configs
    /\ issued = {}
    /\ pre = NoPre

NextValidate ==
    \/ \E f \in Files, declared \in DeclaredSizes : UploadCall(Main, f, declared)
    \/ UploadSteps(Main)
    \/ AddSteps(Main)

SpecValidate == InitValidate /\ [][NextValidate]_vars

(***************************************************************************)
(* ImageService.GetImage, ListImages and DeleteImage                       *)
(***************************************************************************)
ErrNotFound(id) == <<"image", "not", "found", ":", id>>
ErrDeleteFile == Wrap(<<"failed", "to", "delete", "file">>, <<"storage", "error">>)
ErrDeleteMetadata(e) == Wrap(<<"failed", "to", "delete", "metadata">>, StoreErr(e))

ServiceFailed(kind, err) == [NoRet EXCEPT !.kind = kind, !.err = err, !.done = TRUE]
ServiceOk(kind) == [NoRet EXCEPT !.kind = kind, !.done = TRUE]

\* filepath.Ext: the suffix of the last path element that starts at its
\* last dot; a path is a token sequence whose extension is one token
ExtTokens == {".webp", ".jpg", ".jpeg", ".png", ".gif"}
Ext(path) ==
    IF path # EmptyPath /\ path[Len(path)] \in ExtTokens THEN path[Len(path)] ELSE ""

\* isValidStoragePath
isValidStoragePath_AnyPath(path) == path # EmptyPath
isValidStoragePath(path) ==
    IF path = EmptyPath THEN FALSE
    ELSE Ext(path) \in {".webp", ".jpg", ".jpeg", ".png"}

\* DeleteImage: the persisted key, or else the locator without "/images/"
URLPrefix == <<"/images", "/">>
ResolveKey(img) ==
    IF img.StoragePath # EmptyPath THEN img.StoragePath
    ELSE IF /\ img.URL # EmptyPath
            /\ Len(img.URL) > Len(URLPrefix)
            /\ SubSeq(img.URL, 1, Len(URLPrefix)) = URLPrefix
         THEN SubSeq(img.URL, Len(URLPrefix) + 1, Len(img.URL))
    ELSE EmptyPath

\* DeleteImage: storagePath == "" || storagePath == "/" || !isValidStoragePath
Unresolvable(storagePath) ==
    storagePath = EmptyPath \/ storagePath = <<"/">> \/ ~isValidStoragePath(storagePath)

\* DeleteImage: an error of Storage.Delete ends the call unless os.IsNotExist
StorageDeleteFatal_Any(outcome) == outcome # "ok"
StorageDeleteFatal(outcome) == outcome = "error"

\* DeleteImage, after s.metadata.Get(id): the not-found return, the key,
\* s.storage.Delete, and the call of s.metadata.Delete(id)
DAfterGet(p) ==
    /\ sys = "up"
    /\ pc[p] = "d_afterget"
    /\ LET storagePath == ResolveKey(ret[p].img)
           toDelete == [op[p] EXCEPT !.kind = "Delete", !.caller = "DeleteImage:Delete",
                                     !.img = ret[p].img, !.key = storagePath]
       IN
       IF ~ret[p].found
       THEN /\ ret' = [ret EXCEPT ![p] = ServiceFailed("DeleteImage", ErrNotFound(op[p].id))]
            /\ pc' = [pc EXCEPT ![p] = "idle"]
            /\ UNCHANGED <<op, storage, trace>>
       ELSE IF Unresolvable(storagePath)
       THEN /\ op' = [op EXCEPT ![p] = [toDelete EXCEPT !.sdel = "skipped"]]
            /\ pc' = [pc EXCEPT ![p] = "lock"]
            /\ trace' = [trace EXCEPT ![p] = Append(@, Called("MetaDelete", storagePath))]
            /\ UNCHANGED <<ret, storage>>
       ELSE \E outcome \in DeleteOutcomes(storage, storagePath) :
            /\ storage' = StorageDelete(storage, storagePath, outcome)
            /\ IF StorageDeleteFatal(outcome)
               THEN /\ ret' = [ret EXCEPT ![p] = ServiceFailed("DeleteImage", ErrDeleteFile)]
                    /\ pc' = [pc EXCEPT ![p] = "idle"]
                    /\ op' = [op EXCEPT ![p].img = ret[p].img, ![p].key = storagePath,
                                        ![p].sdel = outcome]
                    /\ trace' = [trace EXCEPT ![p] = Append(@, Called("Delete", storagePath))]
               ELSE /\ ret' = ret
                    /\ pc' = [pc EXCEPT ![p] = "lock"]
                    /\ op' = [op EXCEPT ![p] = [toDelete EXCEPT !.sdel = outcome]]
                    /\ trace' = [trace EXCEPT ![p] =
                                    @ \o <<Called("Delete", storagePath),
                                           Called("MetaDelete", storagePath)>>]
    /\ UNCHANGED <<storeVars, sys, ncalls, savedOk, compFailed, upVars, pre>>

\* DeleteImage, after s.metadata.Delete(id) has returned
DAfterDelete(p) ==
    /\ sys = "up"
    /\ pc[p] = "d_afterdel"
    /\ pc' = [pc EXCEPT ![p] = "idle"]
    /\ ret' = [ret EXCEPT ![p] =
                  IF op[p].addErr # "nil"
                  THEN ServiceFailed("DeleteImage", ErrDeleteMetadata(op[p].addErr))
                  ELSE ServiceOk("DeleteImage")]
    /\ UNCHANGED <<op, storeVars, storage, sys, ncalls, histVars, upVars>>

\* GetImage, after s.metadata.Get(id)
GAfterGet(p) ==
    /\ sys = "up"
    /\ pc[p] = "g_afterget"
    /\ pc' = [pc EXCEPT ![p] = "idle"]
    /\ ret' = [ret EXCEPT ![p] =
                  IF ret[p].found
                  THEN [ServiceOk("GetImage") EXCEPT !.found = TRUE, !.img = ret[p].img]
                  ELSE ServiceFailed("GetImage", ErrNotFound(op[p].id))]
    /\ UNCHANGED <<op, storeVars, storage, sys, ncalls, histVars, upVars>>

\* ListImages: the page window.  Go's int has a fixed width and its
\* arithmetic wraps around; IntBits is that width, scaled down.
IntBits == 16
MinInt == -(2 ^ (IntBits - 1))
MaxInt == 2 ^ (IntBits - 1) - 1
WrapInt(x) == ((x - MinInt) % (2 ^ IntBits)) + MinInt
MaxPageSize == 100
DefaultPageSize == 20

\* model.ImageListItem, as ListImages fills it from a record
ListItem(img) ==
    [ID |-> img.ID, URL |-> img.URL, OriginalFormat |-> img.OriginalFormat,
     ProcessedSize |-> img.ProcessedSize, Width |-> img.Width,
     Height |-> img.Height, CreatedAt |-> img.CreatedAt]

\* ListImages on the list s.metadata.List() returned.  allImages[start:end]
\* and make(..., 0, end-start) panic unless 0 <= start <= end <= len.
\* start and end as ListImages computes them, after both clamps
Window(total, page0, pageSize0) ==
    LET page == IF page0 < 1 THEN 1 ELSE page0
        pageSize == IF pageSize0 < 1 \/ pageSize0 > MaxPageSize
                    THEN DefaultPageSize ELSE pageSize0
        start0 == WrapInt(WrapInt(page - 1) * pageSize)
        end0 == WrapInt(start0 + pageSize)
    IN  [start |-> IF start0 >= total THEN total ELSE start0,
         end |-> IF end0 > total THEN total ELSE end0]

Paginate(allImages, page0, pageSize0) ==
    LET page == IF page0 < 1 THEN 1 ELSE page0
        pageSize == IF pageSize0 < 1 \/ pageSize0 > MaxPageSize
                    THEN DefaultPageSize ELSE pageSize0
        total == Len(allImages)
        start == Window(total, page0, pageSize0).start
        end == Window(total, page0, pageSize0).end
        totalPages == (total \div pageSize) + (IF total % pageSize > 0 THEN 1 ELSE 0)
    IN  IF start < 0 \/ end < start
        THEN [NoPage EXCEPT !.panic = TRUE]
        ELSE [Items |-> [i \in 1..(end - start) |-> ListItem(allImages[start + i])],
              Total |-> total, Page |-> page, PageSize |-> pageSize,
              TotalPages |-> totalPages, panic |-> FALSE]

\* ListImages, after s.metadata.List()
LAfterList(p) ==
    /\ sys = "up"
    /\ pc[p] = "l_afterlist"
    /\ pc' = [pc EXCEPT ![p] = "idle"]
    /\ ret' = [ret EXCEPT ![p].kind = "ListImages", ![p].done = TRUE,
                          ![p].pl = Paginate(ret[p].list, op[p].page, op[p].pageSize)]
    /\ UNCHANGED <<op, storeVars, storage, sys, ncalls, histVars, upVars>>

(***************************************************************************)
(* SpecService: the process starts on a metadata file it finds (none, a    *)
(* damaged one, or one with a record of an earlier deployment), and one    *)
(* caller then runs Upload, GetImage, ListImages and DeleteImage one after *)
(* the other; the process may be stopped and started.                       *)
(***************************************************************************)
ServiceCalls == 2

LegacyId == "old"
LegacyKey(ext) == <<"2023", "/", "12", "/", LegacyId, ext>>
LegacyURLs == {URLWith(BaseURL, LegacyKey(".jpg")),
               URLWith(BaseURL, LegacyKey(".gif")),
               URLWith(BaseURL, <<"/">>),
               URLWith(<<"https://cdn.example.com">>, LegacyKey(".jpg"))}
LegacyRecord(url) ==
    Image(LegacyId, url, "jpeg", 4, 2, 1, 1, 1, <<LegacyId, ".jpg">>, EmptyPath)
LegacyFile(url) == JSONFile(MarshalTable(Put(EmptyTable, LegacyId, LegacyRecord(url))))
StartFiles == {Absent, Torn} \cup {LegacyFile(u) : u \in LegacyURLs}
\* the objects in storage that go with a metadata file
ObjectsOf(f) ==
    {ResolveKey(FromJSON(f.tbl[i])) : i \in DOMAIN f.tbl} \ {EmptyPath, <<"/">>}

BaseURLs == {BaseURL, <<"https://cdn.example.com">>, <<"/images", "/", "v2">>}
ServiceConfigs == {[DefaultConfig EXCEPT !.BaseURL = b] : b \in BaseURLs}
ServiceIds == Ids \cup {LegacyId}
ServiceFiles == {JPEGHeader, GIFHeader}

ServiceBegin(p, o) == StoreBegin(p, o, ServiceCalls) /\ pre' = Snapshot

CallUpload(p) ==
    \E f \in ServiceFiles : UploadBegin(p, f, Len(f)) /\ pre' = Snapshot
CallDeleteImage(p) ==
    \E id \in ServiceIds : ServiceBegin(p, StoreOp("Get", "DeleteImage:Get", id, NoImage))
CallGetImage(p) ==
    \E id \in ServiceIds : ServiceBegin(p, StoreOp("Get", "GetImage:Get", id, NoImage))
CallListImages(p) ==
    \E page \in {0, 2}, pageSize \in {1} :
        ServiceBegin(p, [StoreOp("List", "ListImages:List", "", NoImage)
                            EXCEPT !.page = page, !.pageSize = pageSize])

\* the process is shut down while no request is running
Stop == (\A p \in Procs : pc[p] = "idle") /\ Crash

\* main: NewImageService, which fails when NewMetadataStore fails
Start ==
    /\ sys = "down"
    /\ \E readFails \in BOOLEAN :
        LET st == StartupWith(fs[MetaFile], readFails) IN
        /\ sys' = st.sys
        /\ images' = st.tbl
    /\ UNCHANGED <<pc, op, ret, mu, fs, storage, ncalls,
                   fileBefore, fileAfter, histVars, upVars>>

InitService ==
    /\ pc = [p \in Procs |-> "idle"]
    /\ op = [p \in Procs |-> NoOp]
    /\ ret = [p \in Procs |-> NoRet]
    /\ mu = NoProc
    /\ images = EmptyTable
    /\ \E f \in StartFiles :
        /\ fs = [n \in FileNames |-> IF n = MetaFile THEN f ELSE Absent]
        /\ storage = ObjectsOf(f)
    /\ sys = "down"
    /\ ncalls = 0
    /\ fileBefore = Absent
    /\ fileAfter = Absent
    /\ trace = [p \in Procs |-> <<>>]
    /\ savedOk = {}
    /\ compFailed = {}
    /\ config \in ServiceConfigs
    /\ issued = {}
    /\ pre = NoPre

NextService ==
    \/ CallUpload(Main) \/ CallDeleteImage(Main)
    \/ CallGetImage(Main) \/ CallListImages(Main)
    \/ UploadSteps(Main)
    \/ Lock(Main) \/ AddBody(Main) \/ DeleteBody(Main) \/ GetBody(Main) \/ ListBody(Main)
    \/ SaveMarshal(Main) \/ SaveWriteOpen(Main) \/ SaveWriteData(Main) \/ SaveRename(Main)
    \/ Unlock(Main)
    \/ DAfterGet(Main) \/ DAfterDelete(Main) \/ GAfterGet(Main) \/ LAfterList(Main)
    \/ Stop
    \/ Start

SpecService == InitService /\ [][NextService]_vars

(***************************************************************************)
(* SpecPaginate: ListImages computes the page from the list that           *)
(* s.metadata.List() returned, for lists of up to MaxRecords records and   *)
(* page and pageSize values around every boundary of the computation.      *)
(***************************************************************************)
MaxRecords == 5

\* the newest-first list of n records s.metadata.List() returns
NewestFirst(n) == [i \in 1..n |-> RecordOf(ToString(i), n - i + 1)]
TableOfList(l) == [id \in {l[i].ID : i \in 1..Len(l)} |->
                      (CHOOSE r \in {l[i] : i \in 1..Len(l)} : r.ID = id)]

\* values of the query parameters page and page_size (strconv.Atoi)
PageInputs == {-1, 0, 1, 2, 3, 4, 2 ^ (IntBits - 4) + 1, MaxInt}
PageSizeInputs == {-1, 0, 1, 2, 16, DefaultPageSize, MaxPageSize, MaxPageSize + 1}

InitPaginate ==
    /\ \E n \in 0..MaxRecords, page \in PageInputs, pageSize \in PageSizeInputs :
        /\ images = TableOfList(NewestFirst(n))
        /\ op = [p \in Procs |->
                    IF p = Main
                    THEN [StoreOp("List", "ListImages:List", "", NoImage)
                             EXCEPT !.page = page, !.pageSize = pageSize]
                    ELSE NoOp]
        /\ ret = [p \in Procs |->
                    IF p = Main
                    THEN [NoRet EXCEPT !.kind = "List", !.list = NewestFirst(n),
                                       !.ptrs = [i \in 1..n |-> CopyTarget(ToString(i))]]
                    ELSE NoRet]
    /\ pc = [p \in Procs |-> IF p = Main THEN "l_afterlist" ELSE "idle"]
    /\ mu = NoProc
    /\ fs = [n \in FileNames |-> Absent]
    /\ storage = {}
    /\ sys = "up"
    /\ ncalls = 0
    /\ fileBefore = Absent
    /\ fileAfter = Absent
    /\ trace = [p \in Procs |-> <<>>]
    /\ savedOk = {}
    /\ compFailed = {}
    /\ config = DefaultConfig
    /\ issued = {}
    /\ pre = NoPre

NextPaginate == LAfterList(Main)

SpecPaginate == InitPaginate /\ [][NextPaginate]_vars

(***************************************************************************)
(* SpecSeq: one caller uses the MetadataStore, one call after the other,   *)
(* and may write to the records that Get and List handed to it.            *)
(***************************************************************************)
SeqCalls == 3
Stamps == 1..(MaxTime + 1)

SeqBegin(p, o) == StoreBegin(p, o, SeqCalls) /\ UNCHANGED pre

SeqAdd(p) ==
    \E id \in Ids, t \in Stamps : SeqBegin(p, StoreOp("Add", "store", id, RecordOf(id, t)))
SeqDelete(p) == \E id \in Ids : SeqBegin(p, StoreOp("Delete", "store", id, NoImage))
SeqGet(p) == \E id \in Ids : SeqBegin(p, StoreOp("Get", "store", id, NoImage))
SeqList(p) == SeqBegin(p, StoreOp("List", "store", "", NoImage))
SeqCount(p) == SeqBegin(p, StoreOp("Count", "store", "", NoImage))
SeqReload(p) == SeqBegin(p, StoreOp("Reload", "store", "", NoImage))

\* what a caller writes into a record it holds a pointer to
Scribbled(img) == [img EXCEPT !.URL = EmptyPath, !.CreatedAt = 0, !.StoragePath = EmptyPath]

\* a write through the pointer `target` with the value `img` behind it
WriteThrough(tbl, target) ==
    IF target \in DOMAIN tbl THEN [tbl EXCEPT ![target] = Scribbled(@)] ELSE tbl

\* the caller modifies a record that Get or List returned to it
Scribble(p) ==
    /\ sys = "up"
    /\ pc[p] = "idle"
    /\ ret[p].done
    /\ \/ /\ ret[p].kind = "Get" /\ ret[p].found
          /\ ret[p].img # Scribbled(ret[p].img)
          /\ ret' = [ret EXCEPT ![p].img = Scribbled(@)]
          /\ images' = WriteThrough(images, ret[p].ptr)
       \/ /\ ret[p].kind = "List"
          /\ \E i \in 1..Len(ret[p].list) :
              /\ ret[p].list[i] # Scribbled(ret[p].list[i])
              /\ ret' = [ret EXCEPT ![p].list[i] = Scribbled(@)]
              /\ images' = WriteThrough(images, ret[p].ptrs[i])
    /\ UNCHANGED <<pc, op, mu, fs, storage, sys, ncalls,
                   fileBefore, fileAfter, histVars, upVars>>

\* s.images[img.ID] = img: the table entry is the pointer the caller of Add
\* passed, so until the entry is replaced the caller's object and the
\* table's record under id are one object
AddTarget(id) == id

\* the caller modifies the record it passed to Add, after Add has returned
ScribbleAdded(p) ==
    /\ sys = "up"
    /\ pc[p] = "idle"
    /\ ret[p].done /\ ret[p].kind = "Add"
    /\ op[p].img # Scribbled(op[p].img)
    /\ op' = [op EXCEPT ![p].img = Scribbled(@)]
    /\ images' = WriteThrough(images, AddTarget(op[p].img.ID))
    /\ UNCHANGED <<pc, ret, mu, fs, storage, sys, ncalls,
                   fileBefore, fileAfter, histVars, upVars>>

NextSeq ==
    \/ SeqAdd(Main) \/ SeqDelete(Main) \/ SeqGet(Main) \/ SeqList(Main) \/ SeqCount(Main)
    \/ Lock(Main) \/ AddBody(Main) \/ DeleteBody(Main)
    \/ GetBody(Main) \/ ListBody(Main) \/ CountBody(Main)
    \/ ScribbleAdded(Main)
    \/ SaveMarshal(Main) \/ SaveWriteOpen(Main) \/ SaveWriteData(Main) \/ SaveRename(Main)
    \/ Unlock(Main)
    \/ Scribble(Main)

SpecSeq == Init /\ [][NextSeq]_vars

\* SpecReload: the single caller also calls Reload
NextReload == NextSeq \/ SeqReload(Main) \/ ReloadBody(Main)

SpecReload == Init /\ [][NextReload]_vars

(***************************************************************************)
(* SpecPages: a client fetches the pages 1, 2, ... one after the other     *)
(* with one page size, request p being served by goroutine p; nothing      *)
(* mutates the store in between.  The table holds records of any creation  *)
(* times, equal ones included.                                             *)
(***************************************************************************)
\* the tables earlier Add calls can have built
StoredTables ==
    UNION {[S -> Stamps] : S \in SUBSET Ids}
TableAt(times) == [id \in DOMAIN times |-> RecordOf(id, times[id])]

PageSizes == {1, 2}

\* request p of the client: GET /api/v1/images?page=p&page_size=s
PageCall(p) ==
    /\ ret[p].kind = "none"
    /\ \A q \in Procs : q < p => (pc[q] = "idle" /\ ret[q].done)
    /\ \E s \in PageSizes :
        /\ p # Main => s = op[Main].pageSize
        /\ StoreBegin(p, [StoreOp("List", "ListImages:List", "", NoImage)
                             EXCEPT !.page = p, !.pageSize = s], NumProcs)
    /\ UNCHANGED pre

InitPages ==
    /\ \E times \in StoredTables :
        /\ images = TableAt(times)
        /\ fs = [n \in FileNames |->
                    IF n = MetaFile /\ DOMAIN times # {}
                    THEN JSONFile(MarshalTable(TableAt(times))) ELSE Absent]
        /\ storage = {TableAt(times)[id].StoragePath : id \in DOMAIN times}
    /\ pc = [p \in Procs |-> "idle"]
    /\ op = [p \in Procs |-> NoOp]
    /\ ret = [p \in Procs |-> NoRet]
    /\ mu = NoProc
    /\ sys = "up"
    /\ ncalls = 0
    /\ fileBefore = Absent
    /\ fileAfter = Absent
    /\ trace = [p \in Procs |-> <<>>]
    /\ savedOk = {}
    /\ compFailed = {}
    /\ config = DefaultConfig
    /\ issued = {}
    /\ pre = NoPre

NextPages ==
    \E p \in Procs :
        \/ PageCall(p)
        \/ Lock(p) \/ ListBody(p) \/ Unlock(p)
        \/ LAfterList(p)

SpecPages == InitPages /\ [][NextPages]_vars

(***************************************************************************)
(* SpecDeleteRace: every goroutine calls DeleteImage once, all for the     *)
(* same image.  The image was uploaded under the configured base URL; its  *)
(* record is the one Upload built or, after a restart, the one loaded from *)
(* the metadata file.                                                      *)
(***************************************************************************)
RaceId == IdNames[1]
RaceKey == StoragePathOf(RaceId, 1)
\* the record Upload built for the image
UploadedRecord(base) ==
    BuildImage(RaceId, URLWith(base, RaceKey), "image/jpeg", 4, ProcessResult, 1, RaceKey)
\* the record as NewMetadataStore decodes it from the file
Reloaded(img) == FromJSON(ToJSON(img))

DeleteCall(p) ==
    /\ ret[p].kind = "none"
    /\ StoreBegin(p, StoreOp("Get", "DeleteImage:Get", RaceId, NoImage), NumProcs)
    /\ UNCHANGED pre

InitDeleteRace ==
    /\ \E c \in ServiceConfigs, restarted \in BOOLEAN :
        LET img == UploadedRecord(c.BaseURL) IN
        /\ config = c
        /\ images = Put(EmptyTable, RaceId, IF restarted THEN Reloaded(img) ELSE img)
        /\ fs = [n \in FileNames |->
                    IF n = MetaFile
                    THEN JSONFile(MarshalTable(Put(EmptyTable, RaceId, img)))
                    ELSE Absent]
    /\ storage = {RaceKey}
    /\ pc = [p \in Procs |-> "idle"]
    /\ op = [p \in Procs |-> NoOp]
    /\ ret = [p \in Procs |-> NoRet]
    /\ mu = NoProc
    /\ sys = "up"
    /\ ncalls = 0
    /\ fileBefore = Absent
    /\ fileAfter = Absent
    /\ trace = [p \in Procs |-> <<>>]
    /\ savedOk = {RaceKey}
    /\ compFailed = {}
    /\ issued = {RaceId}
    /\ pre = NoPre

DeleteRaceStep(p) ==
    \/ DeleteCall(p)
    \/ Lock(p) \/ GetBody(p) \/ DeleteBody(p)
    \/ SaveMarshal(p) \/ SaveWriteOpen(p) \/ SaveWriteData(p) \/ SaveRename(p)
    \/ Unlock(p)
    \/ DAfterGet(p) \/ DAfterDelete(p)

NextDeleteRace == \E p \in Procs : DeleteRaceStep(p)

\* the Go scheduler runs every runnable goroutine, and a goroutine blocked
\* in Lock gets the mutex once it stays free
SpecDeleteRace ==
    /\ InitDeleteRace /\ [][NextDeleteRace]_vars
    /\ \A p \in Procs : WF_vars(DeleteRaceStep(p))

(***************************************************************************)
(* SpecConc: every goroutine serves one request, all at the same time, on  *)
(* a store that holds one uploaded image: the first goroutine an Upload, a *)
(* GetImage, a ListImages or a DeleteImage, the others one of the latter   *)
(* three (concurrent Uploads are SpecUpload's subject).                    *)
(***************************************************************************)
FirstCall(p) == ret[p].kind = "none"

ConcUpload(p) ==
    p = Main /\ FirstCall(p) /\ UploadCall(p, JPEGHeader, Len(JPEGHeader))
ConcDeleteImage(p) ==
    /\ FirstCall(p)
    /\ StoreBegin(p, StoreOp("Get", "DeleteImage:Get", RaceId, NoImage), NumProcs)
    /\ UNCHANGED pre
ConcGetImage(p) ==
    /\ FirstCall(p)
    /\ StoreBegin(p, StoreOp("Get", "GetImage:Get", RaceId, NoImage), NumProcs)
    /\ UNCHANGED pre
ConcListImages(p) ==
    /\ FirstCall(p)
    /\ StoreBegin(p, [StoreOp("List", "ListImages:List", "", NoImage)
                          EXCEPT !.page = 1, !.pageSize = DefaultPageSize], NumProcs)
    /\ UNCHANGED pre

InitConc == InitDeleteRace /\ config = DefaultConfig

ConcStep(p) ==
    \/ ConcUpload(p) \/ ConcDeleteImage(p) \/ ConcGetImage(p) \/ ConcListImages(p)
    \/ UploadSteps(p)
    \/ Lock(p) \/ AddBody(p) \/ DeleteBody(p) \/ GetBody(p) \/ ListBody(p)
    \/ SaveMarshal(p) \/ SaveWriteOpen(p) \/ SaveWriteData(p) \/ SaveRename(p)
    \/ Unlock(p)
    \/ DAfterGet(p) \/ DAfterDelete(p) \/ GAfterGet(p) \/ LAfterList(p)

NextConc == \E p \in Procs : ConcStep(p)

\* fair scheduling of the goroutines, as in SpecDeleteRace
SpecConc ==
    /\ InitConc /\ [][NextConc]_vars
    /\ \A p \in Procs : WF_vars(ConcStep(p))

(***************************************************************************)
(* SpecAuth: requests to the /api/v1 routes pass through AuthMiddleware.   *)
(* A header value is a sequence of pieces: scheme words, the space, and    *)
(* pieces of token text; "" is the empty sequence.                         *)
(***************************************************************************)
MaxHeaderLen == 5
StatusUnauthorized == 401

Pieces == {"Bearer", "BEARER", "Basic", " ", "t1", "T1"}
AuthHeaders == UNION {[1..n -> Pieces] : n \in 0..MaxHeaderLen}

\* strings.ToLower
LowerPiece(c) ==
    CASE c \in {"Bearer", "BEARER"} -> "bearer"
      [] c = "Basic" -> "basic"
      [] c = "T1" -> "t1"
      [] OTHER -> c
ToLower(str) == [i \in 1..Len(str) |-> LowerPiece(str[i])]

\* strings.SplitN(str, " ", 2): cut at the first space, if there is one
SplitN2(str) ==
    IF \E i \in 1..Len(str) : str[i] = " "
    THEN LET i == CHOOSE k \in 1..Len(str) :
                      str[k] = " " /\ \A j \in 1..(k - 1) : str[j] # " "
         IN  <<SubSeq(str, 1, i - 1), SubSeq(str, i + 1, Len(str))>>
    ELSE <<str>>

\* validateToken: the token is one of the allowed tokens
validateToken_AnyConfigured(token, allowedTokens) == Len(allowedTokens) > 0
validateToken(token, allowedTokens) ==
    \E i \in 1..Len(allowedTokens) : allowedTokens[i] = token

\* AuthMiddleware: c.Next() (abort FALSE), or a 401 response and c.Abort()
AuthPass == [abort |-> FALSE, status |-> 0]
AuthReject == [abort |-> TRUE, status |-> StatusUnauthorized]
AuthMiddleware(cfg, authHeader) ==
    IF ~cfg.Enabled THEN AuthPass
    ELSE IF authHeader = <<>> THEN AuthReject
    ELSE LET parts == SplitN2(authHeader) IN
         IF Len(parts) # 2 \/ ToLower(parts[1]) # <<"bearer">> THEN AuthReject
         ELSE IF ~validateToken(parts[2], cfg.Tokens) THEN AuthReject
         ELSE AuthPass

\* SetupRouter: the routes of the group /api/v1 and their handlers
Routes == {"POST /upload", "GET /images", "GET /image/:id", "DELETE /image/:id"}
HandlerOf(route) ==
    CASE route = "POST /upload" -> "Upload"
      [] route = "GET /images" -> "ListImages"
      [] route = "GET /image/:id" -> "GetImage"
      [] OTHER -> "DeleteImage"

\* auth sections a deployment may have in its YAML file
TokenLists == {<<>>, << <<"t1">> >>, << <<"T1">>, <<"t1", " ", "T1">> >>}
AuthConfigs == {[DefaultConfig EXCEPT !.Auth = [Enabled |-> e, Tokens |-> ts]] :
                   e \in BOOLEAN, ts \in TokenLists}

\* a request arrives; gin runs the group's handler chain
Request(p) ==
    /\ sys = "up"
    /\ pc[p] = "idle"
    /\ FirstCall(p)
    /\ ncalls' = ncalls + 1
    /\ \E route \in Routes, h \in AuthHeaders :
        op' = [op EXCEPT ![p] = [NoOp EXCEPT !.kind = "Request", !.caller = "gin",
                                            !.route = route, !.header = h]]
    /\ ret' = [ret EXCEPT ![p] = [NoRet EXCEPT !.kind = "Request"]]
    /\ pc' = [pc EXCEPT ![p] = "auth"]
    /\ UNCHANGED <<storeVars, storage, sys, histVars, upVars>>

\* the chain's first handler: AuthMiddleware
Auth(p) ==
    /\ sys = "up"
    /\ pc[p] = "auth"
    /\ LET r == AuthMiddleware(config.Auth, op[p].header) IN
       IF r.abort
       THEN /\ ret' = [ret EXCEPT ![p].status = r.status, ![p].done = TRUE]
            /\ pc' = [pc EXCEPT ![p] = "idle"]
       ELSE /\ ret' = ret
            /\ pc' = [pc EXCEPT ![p] = "handler"]
    /\ UNCHANGED <<op, storeVars, storage, sys, ncalls, histVars, upVars>>

\* the chain's second handler: the route's ImageHandler method runs
Handler(p) ==
    /\ sys = "up"
    /\ pc[p] = "handler"
    /\ ret' = [ret EXCEPT ![p].kind = HandlerOf(op[p].route), ![p].done = TRUE]
    /\ pc' = [pc EXCEPT ![p] = "idle"]
    /\ UNCHANGED <<op, storeVars, storage, sys, ncalls, histVars, upVars>>

InitAuth ==
    /\ config \in AuthConfigs
    /\ pc = [p \in Procs |-> "idle"]
    /\ op = [p \in Procs |-> NoOp]
    /\ ret = [p \in Procs |-> NoRet]
    /\ mu = NoProc
    /\ images = EmptyTable
    /\ fs = [n \in FileNames |-> Absent]
    /\ storage = {}
    /\ sys = "up"
    /\ ncalls = 0
    /\ fileBefore = Absent
    /\ fileAfter = Absent
    /\ trace = [p \in Procs |-> <<>>]
    /\ savedOk = {}
    /\ compFailed = {}
    /\ issued = {}
    /\ pre = NoPre

NextAuth == Request(Main) \/ Auth(Main) \/ Handler(Main)

SpecAuth == InitAuth /\ [][NextAuth]_vars

(***************************************************************************)
(* SpecAddN: on an empty store every goroutine p calls Add once, with its  *)
(* own identifier IdNames[p]; the calls run concurrently.                  *)
(***************************************************************************)
OwnId(p) == IdNames[p]

CallAddOwn(p) ==
    /\ op[p].kind = "none"
    /\ \E t \in Times :
        StoreCall(p, StoreOp("Add", "store", OwnId(p), RecordOf(OwnId(p), t)))

\* p's Add has returned; the error it returned
AddDone(p) == op[p].kind # "none" /\ (op[p].kind = "Add" => ret[p].done)
AddErrOf(p) == IF op[p].kind = "Add" THEN op[p].err ELSE op[p].addErr

\* once every Add has returned the goroutines read back: Count() and Get(id)
ReadBack(p) ==
    /\ sys = "up"
    /\ pc[p] = "idle"
    /\ \A q \in Procs : AddDone(q)
    /\ \E kind \in {"Count", "Get"}, q \in Procs :
        /\ op' = [op EXCEPT ![p].kind = kind,
                            ![p].id = IF kind = "Get" THEN OwnId(q) ELSE "",
                            ![p].addErr = AddErrOf(p), ![p].err = "nil"]
        /\ ret' = [ret EXCEPT ![p] = [NoRet EXCEPT !.kind = kind]]
    /\ pc' = [pc EXCEPT ![p] = "lock"]
    /\ UNCHANGED <<storeVars, storage, sys, ncalls, histVars, upVars>>

NextAddN ==
    \E p \in Procs :
        \/ CallAddOwn(p)
        \/ ReadBack(p)
        \/ Lock(p) \/ AddBody(p) \/ GetBody(p) \/ CountBody(p)
        \/ SaveMarshal(p) \/ SaveWriteOpen(p) \/ SaveWriteData(p) \/ SaveRename(p)
        \/ Unlock(p)

SpecAddN == Init /\ [][NextAddN]_vars

(***************************************************************************)
(* Properties of the MetadataStore.                                        *)
(***************************************************************************)
\* what Count() and Get(id) return when called in the current state
CountNow == Cardinality(DOMAIN images)
GetNow(id) == IF id \in DOMAIN images THEN <<images[id], TRUE>> ELSE <<NoImage, FALSE>>

\* the table a load of the metadata file yields (a missing file: the empty one)
DiskTable == fs[MetaFile].tbl

\* C1 (as claimed): whenever the store's lock is free, the table in the
\* durable metadata file equals the in-memory table (as the encoder writes
\* it), whether the Add and Delete calls so far returned nil or an error.
C1_DiskEqualsMemory ==
    (sys = "up" /\ mu = NoProc) =>
        /\ fs[MetaFile].k # "torn"
        /\ DiskTable = MarshalTable(images)

\* C2: at every step, also across a crash at any point of saveLocked, the
\* live metadata file is a complete table: the one from before the running
\* mutation or the one after it, never a torn content; so the startup load
\* after a crash never refuses it.
C2_CrashSafe ==
    /\ fs[MetaFile].k \in {"absent", "json"}
    /\ fs[MetaFile] \in {fileBefore, fileAfter}
    /\ sys # "fatal"

\* C2 witness: the process crashed between the write of the temporary file
\* and the rename, restarted, and loaded a non-empty table from the live file.
C2_Witness ==
    /\ sys = "up" /\ mu = NoProc
    /\ fs[TmpFile].k = "json"
    /\ fs[MetaFile].k = "json"
    /\ fs[TmpFile] # fs[MetaFile]
    /\ DOMAIN images # {}
    /\ images = UnmarshalInto(EmptyTable, fs[MetaFile].tbl)
    /\ \A p \in Procs : pc[p] = "idle" /\ op[p].kind = "none"

\* C3: when N concurrent Add calls with N distinct identifiers have all
\* returned nil on an initially empty store, Count() is N, Get finds every
\* identifier with the record that was added, and the durable file holds
\* all N records.
AllAddsReturned == \A p \in Procs : AddDone(p) /\ AddErrOf(p) = "nil"
InCS(p) == pc[p] \in {"body", "marshal", "wopen", "wdata", "rename", "unlock"}
MidCommit(p) == pc[p] \in {"marshal", "wopen", "wdata", "rename"}
C4_CommitAtomic ==
    /\ \A p, q \in Procs : (InCS(p) /\ InCS(q)) => p = q
    /\ \A p \in Procs : InCS(p) => mu = p
    /\ \A p, q \in Procs : (MidCommit(p) /\ p # q) => pc[q] \in {"idle", "lock"}
    /\ sys = "down" => \A p \in Procs : ~InCS(p)

\* C4 witness: one goroutine is in the middle of its durable rewrite while
\* another one has called an operation and waits for the mutex.
C4_Witness ==
    \E p, q \in Procs : p # q /\ pc[p] = "wdata" /\ pc[q] = "lock"

(***************************************************************************)
(* Properties of ImageService.Upload.                                      *)
(***************************************************************************)
Returned(p) == ret[p].done /\ ret[p].kind = "Upload"
\* the call read its input (io.ReadAll returned the bytes)
Buffered(p) == Returned(p) /\ op[p].err # "io"
\* what GetImage(id) finds when called in the current state
Readable(id) == id \in DOMAIN images
KeysOfRecords == {images[id].StoragePath : id \in DOMAIN images}
CallsOf(p, name) == SelectSeq(trace[p], LAMBDA c : c.call = name)

\* C5 (as claimed): an Upload that returned an error, MetadataFailed
\* included, leaves no record with the identifier it generated readable
\* through GetImage or ListImages.
C5_FailedUploadLeavesNoRecord ==
    \A p \in Procs :
        (Returned(p) /\ ret[p].err # ErrNil /\ op[p].id # "") => ~Readable(op[p].id)

\* C6: a record is in the MetadataStore only if Storage.Save returned
\* successfully for its storage key, and MetadataStore.Add is invoked (the
\* call is anywhere between its Lock and its return) only by an upload
\* whose Save has returned successfully for the key of the record it adds.
InAdd(p) ==
    /\ op[p].caller = "upload"
    /\ pc[p] \in {"lock", "body", "marshal", "wopen", "wdata", "rename", "unlock"}
C6_SaveBeforeRecord ==
    /\ \A id \in DOMAIN images : images[id].StoragePath \in savedOk
    /\ \A p \in Procs :
        InAdd(p) => /\ op[p].img.StoragePath \in savedOk
                    /\ op[p].img.StoragePath = op[p].key
    /\ \A p \in Procs :
        CallsOf(p, "Add") # <<>> =>
            /\ Len(trace[p]) >= 2
            /\ \E i \in 1..Len(trace[p]) - 1 :
                /\ trace[p][i].call = "Save" /\ trace[p][i + 1].call = "Add"
                /\ trace[p][i].key \in savedOk

\* C6 witness: two uploads run concurrently, one has saved its object and
\* has its record readable, the other is inside Add after its own Save.
C6_Witness ==
    \E p, q \in Procs :
        /\ p # q
        /\ Returned(p) /\ ret[p].err = ErrNil /\ Readable(op[p].id)
        /\ InAdd(q) /\ pc[q] = "wdata"

\* C7: with Upload calls only, once every Upload has returned, each object
\* in storage has a record in the MetadataStore with that storage key,
\* except the objects whose compensating Storage.Delete failed.
AllIdle == \A p \in Procs : pc[p] = "idle"
C7_OrphanBound ==
    AllIdle => \A k \in storage : k \in KeysOfRecords \/ k \in compFailed

\* C7 witness: all uploads have returned, one of them with success and one
\* after a failed Add whose compensating delete removed the object.
C7_Witness ==
    /\ AllIdle
    /\ \E p, q \in Procs :
        /\ Returned(p) /\ ret[p].err = ErrNil /\ op[p].key \in storage
        /\ Returned(q) /\ ErrKind(ret[q].err) = "MetadataFailed"
        /\ op[q].key \notin storage /\ op[q].key \in savedOk

\* C8: when MetadataStore.Add failed during an Upload, the Upload has
\* invoked Storage.Delete exactly once, with the key it passed to
\* Storage.Save, has returned the MetadataFailed error whatever that delete
\* did, and has returned no UploadResult.
AddFailed(p) == Returned(p) /\ op[p].addErr # "nil"
C8_Compensation ==
    \A p \in Procs :
        AddFailed(p) =>
            /\ CallsOf(p, "Delete") = <<Called("Delete", op[p].key)>>
            /\ CallsOf(p, "Save") = <<Called("Save", op[p].key)>>
            /\ ErrKind(ret[p].err) = "MetadataFailed"
            /\ ~ret[p].hasRes /\ ret[p].res = NoResult

\* C8 witness: Add failed, the compensating delete failed too and left the
\* object in storage, and Upload returned MetadataFailed.
C8_Witness ==
    \E p \in Procs :
        /\ AddFailed(p) /\ op[p].key \in compFailed /\ op[p].key \in storage
        /\ ErrKind(ret[p].err) = "MetadataFailed"

\* C9: when the MIME type sniffed from the buffered bytes is not in the
\* allow-list, Upload fails with InvalidFileType and has invoked neither
\* Process, Save nor Add; no step from the beginning of such a call to its
\* return changes storage or metadata (the table and the files).
BadType(p) == ~(detectMimeFromHeader(op[p].data) \in config.AllowedTypes)
Rejected(p) == Buffered(p) /\ BadType(p)
InUpload(p) == op[p].caller = "upload" /\ pc[p] # "idle"
C9_Returned ==
    \A p \in Procs :
        Rejected(p) =>
            /\ ErrKind(ret[p].err) = "InvalidFileType"
            /\ ~ret[p].hasRes
            /\ trace[p] = <<>>
C9_Step ==
    \A p \in Procs :
        ((InUpload(p) /\ BadType(p)) \/ (InUpload(p) /\ BadType(p))') =>
            UNCHANGED <<storage, images, fs>>
C9_RejectedTypeNoEffect == []C9_Returned /\ [][C9_Step]_vars

\* C9 witness: a WebP upload is rejected by a configuration that does not
\* allow WebP, after an earlier upload has filled storage and metadata.
C9_Witness ==
    /\ Rejected(Main)
    /\ detectMimeFromHeader(op[Main].data) = "image/webp"
    /\ storage # {} /\ DOMAIN images # {}

\* C10: for buffered input of an allowed type Upload fails with
\* FileTooLarge exactly when the buffered length is greater than the
\* maximum (a length equal to the maximum passes), whatever size was
\* declared; an oversized call invokes no Process, Save or Add and none of
\* its steps changes storage or metadata; input of a disallowed type fails
\* with InvalidFileType also when it is oversized.
Oversized(p) == Len(op[p].data) > config.MaxSize
C10_Returned ==
    \A p \in Procs :
        Buffered(p) =>
            /\ ~BadType(p) => (ErrKind(ret[p].err) = "FileTooLarge" <=> Oversized(p))
            /\ ErrKind(ret[p].err) = "FileTooLarge" => (trace[p] = <<>> /\ ~ret[p].hasRes)
            /\ BadType(p) => ErrKind(ret[p].err) = "InvalidFileType"
C10_Step ==
    \A p \in Procs :
        ((InUpload(p) /\ ~BadType(p) /\ Oversized(p)) \/
         (InUpload(p) /\ ~BadType(p) /\ Oversized(p))') =>
            UNCHANGED <<storage, images, fs>>
C10_SizeCheck == []C10_Returned /\ [][C10_Step]_vars

\* C10 witness: an upload of an allowed type whose buffered length equals
\* the maximum, declared larger than the maximum, has succeeded.
C10_Witness ==
    /\ Buffered(Main) /\ ~BadType(Main)
    /\ Len(op[Main].data) = config.MaxSize
    /\ op[Main].declared > config.MaxSize
    /\ ret[Main].err = ErrNil /\ ret[Main].hasRes

(***************************************************************************)
(* Properties of the ImageService operations.                              *)
(***************************************************************************)
ServiceKinds == {"Upload", "DeleteImage", "GetImage", "ListImages"}
ServiceReturned(p) == ret[p].done /\ ret[p].kind \in ServiceKinds /\ pc[p] = "idle"
DeleteReturned(p) == ret[p].done /\ ret[p].kind = "DeleteImage" /\ pc[p] = "idle"
\* Storage.Delete was called by p's DeleteImage and reported `outcome`
StorageReported(p, outcome) == DeleteReturned(p) /\ op[p].sdel = outcome

\* C11 (as claimed): an ImageService operation that has returned an error,
\* other than Upload's MetadataFailed, has left the storage contents, the
\* in-memory table and the metadata file as they were when it was called.
C11_NoPartialEffect ==
    \A p \in Procs :
        (ServiceReturned(p) /\ ret[p].err # ErrNil
                            /\ ErrKind(ret[p].err) # "MetadataFailed") =>
            Snapshot = pre

\* C12 (as claimed): when Storage.Delete reports the object absent,
\* DeleteImage removes the record and reports success; when it reports
\* another error, DeleteImage returns an error without calling
\* MetadataStore.Delete and the record stays readable.
C12_AsClaimed ==
    \A p \in Procs :
        /\ StorageReported(p, "notfound") =>
              (ret[p].err = ErrNil /\ ~Readable(op[p].id))
        /\ StorageReported(p, "error") =>
              /\ ret[p].err # ErrNil
              /\ CallsOf(p, "MetaDelete") = <<>>
              /\ Readable(op[p].id)

\* C12 (amended): when Storage.Delete reports the object absent, DeleteImage
\* goes on to call MetadataStore.Delete once, which removes the record from
\* the in-memory table; DeleteImage reports success if that call returned
\* nil (the record is then gone from the file too) and the "failed to
\* delete metadata" error if it failed.  When Storage.Delete reports any
\* other error, DeleteImage returns the "failed to delete file" error, does
\* not call MetadataStore.Delete, and storage, table and file are unchanged.
C12_StorageOutcomes ==
    \A p \in Procs :
        /\ StorageReported(p, "notfound") =>
              /\ trace[p] = <<Called("Delete", op[p].key), Called("MetaDelete", op[p].key)>>
              /\ ~Readable(op[p].id)
              /\ op[p].addErr = "nil" =>
                    (ret[p].err = ErrNil /\ op[p].id \notin DOMAIN DiskTable)
              /\ op[p].addErr # "nil" =>
                    ret[p].err = ErrDeleteMetadata(op[p].addErr)
        /\ StorageReported(p, "error") =>
              /\ ret[p].err = ErrDeleteFile
              /\ trace[p] = <<Called("Delete", op[p].key)>>
              /\ Readable(op[p].id) /\ images[op[p].id] = op[p].img
              /\ Snapshot = pre

\* C12 witness: a record whose object is not in storage under the resolved
\* key (the locator was built on the base URL "/images/v2") was deleted
\* with success while another object stays in storage.
C12_Witness ==
    /\ StorageReported(Main, "notfound")
    /\ ret[Main].err = ErrNil
    /\ storage # {}
    /\ pre[2] # EmptyTable /\ images = EmptyTable

\* the key DeleteImage resolved for the record it found is empty, is "/",
\* or does not end in .webp, .jpg, .jpeg or .png
KeyUnresolvable(p) ==
    /\ DeleteReturned(p) /\ op[p].img.ID = op[p].id /\ op[p].id # ""
    /\ \/ op[p].key = EmptyPath
       \/ op[p].key = <<"/">>
       \/ Ext(op[p].key) \notin {".webp", ".jpg", ".jpeg", ".png"}

\* C13 (as claimed): with an unresolvable key DeleteImage removes the
\* record, never calls Storage.Delete, leaves storage unchanged and reports
\* success.
C13_AsClaimed ==
    \A p \in Procs :
        KeyUnresolvable(p) =>
            /\ ~Readable(op[p].id)
            /\ CallsOf(p, "Delete") = <<>>
            /\ storage = pre[1]
            /\ ret[p].err = ErrNil

\* C13 (amended): with an unresolvable key DeleteImage calls only
\* MetadataStore.Delete, which removes the record from the in-memory table,
\* never calls Storage.Delete and leaves storage unchanged; it reports
\* success if MetadataStore.Delete returned nil (the record is then gone
\* from the file too) and the "failed to delete metadata" error otherwise.
C13_UnresolvableKey ==
    \A p \in Procs :
        KeyUnresolvable(p) =>
            /\ trace[p] = <<Called("MetaDelete", op[p].key)>>
            /\ ~Readable(op[p].id)
            /\ storage = pre[1]
            /\ op[p].addErr = "nil" =>
                  (ret[p].err = ErrNil /\ op[p].id \notin DOMAIN DiskTable)
            /\ op[p].addErr # "nil" =>
                  ret[p].err = ErrDeleteMetadata(op[p].addErr)

\* C13 witness: a record whose key ends in .gif was deleted with success
\* and its object is still in storage.
C13_Witness ==
    /\ KeyUnresolvable(Main)
    /\ Ext(op[Main].key) = ".gif"
    /\ ret[Main].err = ErrNil
    /\ op[Main].key \in storage

\* C14 (as claimed): every record of the store, also after the store was
\* re-opened on its file or reloaded, equals the record that was added, in
\* every field, the storage key included.
C14_DurableRoundTrip ==
    sys = "up" =>
        \A id \in DOMAIN images : images[id] = RecordOf(id, images[id].CreatedAt)

\* C16: a startup on a missing metadata file yields a running service with
\* an empty table; a startup on a file that is no valid JSON fails; a
\* startup fails only when the file exists, and then no table is kept and
\* no step is ever taken again (no store, no service); a startup that
\* succeeds on an existing file has loaded the whole table of the file.
C16_Step ==
    /\ sys # "fatal"
    /\ (sys = "down" /\ sys' # "down") =>
          /\ fs[MetaFile].k = "absent" => (sys' = "up" /\ images' = EmptyTable)
          /\ fs[MetaFile].k = "torn" => sys' = "fatal"
          /\ sys' = "fatal" => (fs[MetaFile].k # "absent" /\ images' = EmptyTable)
          /\ (sys' = "up" /\ fs[MetaFile].k = "json") =>
                images' = UnmarshalInto(EmptyTable, fs[MetaFile].tbl)
C16_StartupLoad == [][C16_Step]_vars

\* C16 witness: the startup on a metadata file that is not valid JSON has
\* failed.
C16_Witness == sys = "fatal" /\ fs[MetaFile].k = "torn" /\ images = EmptyTable

\* C20 (as claimed): two Upload errors of different kinds among
\* InvalidFileType, FileTooLarge, ProcessingFailed, StorageFailed and
\* MetadataFailed never get the same error code from the handler.
UploadKinds == {"InvalidFileType", "FileTooLarge", "ProcessingFailed",
                "StorageFailed", "MetadataFailed"}
C20_DistinctKinds ==
    \A p, q \in Procs :
        (/\ Returned(p) /\ Returned(q)
         /\ ErrKind(ret[p].err) \in UploadKinds
         /\ ErrKind(ret[q].err) \in UploadKinds
         /\ ErrKind(ret[p].err) # ErrKind(ret[q].err)) =>
            UploadErrorCode(ret[p].err) # UploadErrorCode(ret[q].err)

(***************************************************************************)
(* Properties of the MetadataStore seen by one caller.                     *)
(***************************************************************************)
SeqReturned(p, kind) == pc[p] = "idle" /\ ret[p].done /\ ret[p].kind = kind
\* the identifier a call works on
TargetId(p) == IF op[p].kind = "Add" THEN op[p].img.ID ELSE op[p].id
IdsListed == {l[i].ID : i \in 1..Cardinality(DOMAIN images), l \in Listings(images)}

\* C15: once Add(r) has returned, Get(r.ID) returns r, equal in every field;
\* once Delete(id) has returned, Get(id) reports not found and id is in no
\* listing and not counted; what Get itself returns is the table's record;
\* and no step of a call on one identifier changes what Get returns for any
\* other identifier.
C15_Returned ==
    \A p \in Procs :
        /\ SeqReturned(p, "Add") => GetNow(op[p].img.ID) = <<op[p].img, TRUE>>
        /\ SeqReturned(p, "Delete") =>
              /\ GetNow(op[p].id) = <<NoImage, FALSE>>
              /\ op[p].id \notin IdsListed
              /\ CountNow = Cardinality(DOMAIN images \ {op[p].id})
        /\ (pc[p] = "unlock" /\ op[p].kind = "Get") =>
              <<ret[p].img, ret[p].found>> = GetNow(op[p].id)
C15_Frame ==
    \A p \in Procs, id \in Ids :
        (pc'[p] # "idle" /\ TargetId(p)' # id) => GetNow(id)' = GetNow(id)
C15_MemoryRoundTrip == []C15_Returned /\ [][C15_Frame]_vars

\* C15 witness: after two records were added one of them has been deleted,
\* and the other one is still in the table.
C15_Witness ==
    /\ SeqReturned(Main, "Delete")
    /\ DOMAIN images # {} /\ op[Main].id \notin DOMAIN images
    /\ fs[MetaFile].k = "json" /\ DOMAIN DiskTable # {}

\* C17: a write of the caller to a record that Get or List returned
\* changes neither the table nor the metadata file, so that Get, List and
\* Count return afterwards what they would have returned without it.
C17_Step ==
    \A p \in Procs :
        (/\ pc[p] = "idle" /\ pc'[p] = "idle"
         /\ ret[p].done /\ ret'[p] # ret[p]) =>
            /\ \A id \in Ids : GetNow(id)' = GetNow(id)
            /\ Listings(images)' = Listings(images)
            /\ CountNow' = CountNow
            /\ fs' = fs
C17_ReadIsolation == [][C17_Step]_vars

\* C17 witness: the caller has overwritten the record Get returned, and
\* the table still holds the record as it was.
C17_Witness ==
    /\ SeqReturned(Main, "Get") /\ ret[Main].found
    /\ ret[Main].img.CreatedAt = 0
    /\ op[Main].id \in DOMAIN images
    /\ ret[Main].img = Scribbled(images[op[Main].id])
    /\ images[op[Main].id].CreatedAt # 0

\* C18: the list List is about to return holds exactly the records of the
\* table, each once, and no record of it is older than one after it.
C18_ListOrder ==
    \A p \in Procs :
        (pc[p] = "unlock" /\ op[p].kind = "List") =>
            LET l == ret[p].list IN
            /\ Len(l) = Cardinality(DOMAIN images)
            /\ \A id \in DOMAIN images :
                  Cardinality({i \in 1..Len(l) : l[i] = images[id]}) = 1
            /\ \A i, j \in 1..Len(l) : i < j => l[i].CreatedAt >= l[j].CreatedAt

\* C18 witness: List is about to return two records of different age.
C18_Witness ==
    /\ pc[Main] = "unlock" /\ op[Main].kind = "List"
    /\ Len(ret[Main].list) = 2
    /\ ret[Main].list[1].CreatedAt > ret[Main].list[2].CreatedAt

(***************************************************************************)
(* Properties of ListImages.                                               *)
(***************************************************************************)
ListImagesReturned(p) == pc[p] = "idle" /\ ret[p].done /\ ret[p].kind = "ListImages"
Min(a, b) == IF a < b THEN a ELSE b

\* C19: with p the page (1 when page < 1), s the page size (20 when it is
\* not in 1..100) and L the newest-first list of n records, ListImages
\* returns Items = L[(p-1)*s .. min(p*s, n)), empty when (p-1)*s >= n,
\* Total = n, Page = p, PageSize = s and TotalPages = ceil(n / s).
C19_PageWindow ==
    \A q \in Procs :
        ListImagesReturned(q) =>
            LET p == IF op[q].page >= 1 THEN op[q].page ELSE 1
                s == IF 1 <= op[q].pageSize /\ op[q].pageSize <= 100
                     THEN op[q].pageSize ELSE 20
                L == ret[q].list
                n == Len(L)
                from == (p - 1) * s
                to == Min(p * s, n)
                r == ret[q].pl
            IN  /\ ~r.panic
                /\ Len(r.Items) = (IF from >= n THEN 0 ELSE to - from)
                /\ \A i \in 1..Len(r.Items) : r.Items[i] = ListItem(L[from + i])
                /\ r.Total = n
                /\ r.Page = p
                /\ r.PageSize = s
                /\ r.TotalPages * s >= n /\ (r.TotalPages - 1) * s < n
                /\ r.TotalPages >= 0

(***************************************************************************)
(* SpecProcess: one goroutine uploads one picture: each of the three       *)
(* formats, each EXIF state, grids that are not square.  The size limit is *)
(* set so that every picture passes it.                                    *)
(***************************************************************************)
MaxTag == 9
ExifStates == {NoExif, NoTag} \cup (1..MaxTag)
\* width above MinWidth and height above MinHeight: 2x1, 3x2 and 2x3
ExtraSizes == {<<0, 0>>, <<1, 1>>, <<0, 2>>}
PictureFiles ==
    {h \o <<e, s[1], s[2]>> :
        h \in {JPEGHeader, PNGHeader, WebPHeader}, e \in ExifStates, s \in ExtraSizes}

ProcessUpload(p) ==
    /\ FirstCall(p)
    /\ \E f \in PictureFiles : UploadCall(p, f, Len(f))

InitProcess ==
    /\ pc = [p \in Procs |-> "idle"]
    /\ op = [p \in Procs |-> NoOp]
    /\ ret = [p \in Procs |-> NoRet]
    /\ mu = NoProc
    /\ images = EmptyTable
    /\ fs = [n \in FileNames |-> Absent]
    /\ storage = {}
    /\ sys = "up"
    /\ ncalls = 0
    /\ fileBefore = Absent
    /\ fileAfter = Absent
    /\ trace = [p \in Procs |-> <<>>]
    /\ savedOk = {}
    /\ compFailed = {}
    /\ config = [DefaultConfig EXCEPT !.MaxSize = Len(WebPHeader) + 3]
    /\ issued = {}
    /\ pre = NoPre

NextProcess ==
    \/ ProcessUpload(Main)
    \/ UploadSteps(Main)
    \/ AddSteps(Main)

SpecProcess == InitProcess /\ [][NextProcess]_vars


\* C29: for every page and pageSize the handler can pass, the largest
\* representable page included, the indices ListImages computes satisfy
\* 0 <= start <= end <= total and the call returns without a run-time fault.
C29_WindowInBounds ==
    \A q \in Procs :
        ListImagesReturned(q) =>
            LET total == Len(ret[q].list)
                w == Window(total, op[q].page, op[q].pageSize)
            IN  /\ 0 <= w.start /\ w.start <= w.end /\ w.end <= total
                /\ ~ret[q].pl.panic

\* the table the metadata file decodes to
DecodedFile == [id \in DOMAIN DiskTable |-> FromJSON(DiskTable[id])]

\* C24: when Reload is about to return nil the in-memory table holds exactly
\* the records that are in the durable file, whatever it held before, and
\* a Reload that fails leaves the in-memory table unchanged.
C24_Returned ==
    \A p \in Procs :
        (pc[p] = "unlock" /\ op[p].kind = "Reload" /\ op[p].err = "nil") =>
            images = DecodedFile
C24_Step ==
    \A p \in Procs :
        (/\ pc[p] = "body" /\ op[p].kind = "Reload"
         /\ pc'[p] = "unlock" /\ op'[p].err # "nil") => images' = images
C24_ReloadEqualsFile == []C24_Returned /\ [][C24_Step]_vars

\* C25: when the caller modifies the record it passed to Add after Add has
\* returned, what Get and List return for the table stays as it was.
C25_Step ==
    \A p \in Procs :
        (/\ pc[p] = "idle" /\ pc'[p] = "idle"
         /\ ret[p].done /\ ret[p].kind = "Add" /\ ret'[p] = ret[p]
         /\ op'[p].img # op[p].img) =>
            /\ \A id \in Ids : GetNow(id)' = GetNow(id)
            /\ Listings(images)' = Listings(images)
C25_WriteIsolation == [][C25_Step]_vars

\* the keys an upload that was given identifier id saves its object under
UploadKeys(id) == {StoragePathOf(id, t) : t \in Times}

\* C26: when DeleteImage(id) reports success for the record of an upload,
\* the object the upload saved is gone from storage; also after the record
\* was reloaded from the file, for every configured public base URL.
C26_NoOrphanAfterDelete ==
    \A p \in Procs :
        (DeleteReturned(p) /\ ret[p].err = ErrNil /\ op[p].id \in Ids) =>
            UploadKeys(op[p].id) \cap storage = {}

(***************************************************************************)
(* Properties of concurrent uploads.                                       *)
(***************************************************************************)
\* Upload has generated its identifier and storage key
HasKey(p) == op[p].caller = "upload" /\ op[p].id # ""

\* C21: in every interleaving of Upload calls, no two uploads have the same
\* identifier or the same storage key, the key is year/month/identifier.webp,
\* no Storage.Save writes to a key that already holds an object and no
\* MetadataStore.Add of an upload replaces a record.
C21_Distinct ==
    \A p \in Procs :
        HasKey(p) =>
            /\ Len(op[p].key) = 6
            /\ op[p].key[1] = "2024" /\ op[p].key[3] \in {"01", "02", "03", "04", "05", "06",
                                                          "07", "08", "09", "10", "11", "12"}
            /\ op[p].key[5] = op[p].id /\ op[p].key[6] = ".webp"
            /\ \A q \in Procs \ {p} :
                  HasKey(q) => op[q].id # op[p].id /\ op[q].key # op[p].key
C21_Step ==
    \A p \in Procs :
        /\ (pc[p] = "u_save" /\ pc'[p] # "u_save") => op[p].key \notin storage
        /\ (pc[p] = "body" /\ op[p].caller = "upload" /\ pc'[p] # "body") =>
              op[p].img.ID \notin DOMAIN images
C21_CollisionFree == []C21_Distinct /\ [][C21_Step]_vars

\* C21 witness: two uploads that ran concurrently have both saved their
\* object and added their record, under different keys and identifiers.
C21_Witness ==
    \E p, q \in Procs :
        /\ p # q /\ HasKey(p) /\ HasKey(q)
        /\ pc[p] = "u_afteradd" /\ pc[q] = "u_afteradd"
        /\ {op[p].key, op[q].key} \subseteq storage
        /\ {op[p].id, op[q].id} \subseteq DOMAIN images
        /\ op[p].key # op[q].key

\* the positions (page, index) at which the pages 1..n hold record id
PositionsOf(id, n) ==
    {<<p, i>> \in (1..n) \X (1..MaxPageSize) :
        p \in Procs /\ i <= Len(ret[p].pl.Items) /\ ret[p].pl.Items[i].ID = id}

\* C30: with no mutation in between, the List calls return one and the same
\* sequence, and the pages 1..TotalPages that successive ListImages calls
\* with one page size return hold every record exactly once, also when
\* records have equal creation times.
C30_DeterministicPages ==
    (\A p \in Procs : ListImagesReturned(p)) =>
        /\ \A p, q \in Procs : ret[p].list = ret[q].list
        /\ ret[Main].pl.TotalPages <= NumProcs =>
              \A id \in DOMAIN images :
                  Cardinality(PositionsOf(id, ret[Main].pl.TotalPages)) = 1

\* C27: when DeleteImage calls for one existing image run concurrently, in
\* every interleaving all of them return, each returns nil or NotFound and
\* none a fatal error, at least one returns nil, and afterwards the record
\* is absent from the store and the object from storage.
C27_Outcome ==
    (\A p \in Procs : DeleteReturned(p)) =>
        /\ \A p \in Procs : ret[p].err \in {ErrNil, ErrNotFound(RaceId)}
        /\ \E p \in Procs : ret[p].err = ErrNil
        /\ RaceId \notin DOMAIN images
        /\ RaceKey \notin storage
C27_ConcurrentDeletes ==
    /\ []C27_Outcome
    /\ \A p \in Procs : (pc[p] # "idle") ~> DeleteReturned(p)

(***************************************************************************)
(* Properties of the lock.                                                 *)
(***************************************************************************)
\* where a goroutine is between s.mu.Lock() and the deferred Unlock
HoldsLockAt(p) == pc[p] \in {"body", "marshal", "wopen", "wdata", "rename", "unlock"}

\* C28: under fair scheduling every Upload, GetImage, ListImages and
\* DeleteImage call returns; a goroutine holds the MetadataStore lock only
\* inside a store method, so the lock is free of it after every return,
\* when it is about to acquire the lock, and while it waits on storage or
\* on image processing.
C28_LockDiscipline ==
    \A p \in Procs :
        /\ mu = p => HoldsLockAt(p)
        /\ pc[p] \in {"idle", "lock", "u_start", "u_process", "u_save", "u_afteradd",
                      "d_afterget", "d_afterdel", "g_afterget", "l_afterlist"} => mu # p
C28_Termination ==
    /\ []C28_LockDiscipline
    /\ \A p \in Procs : (pc[p] # "idle") ~> (pc[p] = "idle" /\ ret[p].done)

\* C28 witness: all goroutines have returned, among them an Upload that
\* failed and a DeleteImage that succeeded, and the lock is free.
C28_Witness ==
    /\ \A p \in Procs : pc[p] = "idle" /\ ret[p].done
    /\ \E p, q \in Procs :
        /\ p # q
        /\ ret[p].kind = "Upload" /\ ret[p].err # ErrNil
        /\ ret[q].kind = "DeleteImage" /\ ret[q].err = ErrNil
    /\ mu = NoProc

(***************************************************************************)
(* Properties of the bearer-token gate.                                    *)
(***************************************************************************)
\* the header is a scheme that reads "bearer" when case is ignored, one
\* space, and a token that is one of the configured tokens
CarriesToken(h, tokens) ==
    \E scheme \in {"Bearer", "BEARER"}, i \in 1..Len(tokens) :
        h = <<scheme, " ">> \o tokens[i]
Admitted(p) == ~config.Auth.Enabled \/ CarriesToken(op[p].header, config.Auth.Tokens)
HandlerKinds == {"Upload", "ListImages", "GetImage", "DeleteImage"}

\* C23: a request reaches its route's handler if and only if authentication
\* is disabled or its Authorization header is 'Bearer <token>' (scheme in
\* any case) with one of the configured tokens; any other request is
\* answered with 401 and its handler does not run.
C23_BearerGate ==
    \A p \in Procs :
        /\ pc[p] = "handler" => Admitted(p)
        /\ (op[p].kind = "Request" /\ ret[p].done) =>
              IF Admitted(p)
              THEN ret[p].kind = HandlerOf(op[p].route) /\ ret[p].status # 401
              ELSE ret[p].kind \notin HandlerKinds /\ ret[p].status = 401

\* C23 witness: with authentication enabled, a request whose scheme is in
\* capitals and whose configured token contains a space reached its handler.
C23_Witness ==
    /\ config.Auth.Enabled
    /\ op[Main].header = <<"BEARER", " ", "t1", " ", "T1">>
    /\ ret[Main].done /\ ret[Main].kind = "DeleteImage"

\* the pixel of the decoded w x h grid that the transform named for tag k
\* (1 identity, 2 horizontal flip, 3 rotation by 180, 4 vertical flip,
\* 5 transpose, 6 rotation by 270, 7 transverse, 8 rotation by 90, the
\* rotations counter-clockwise) puts at place c; any other k: unchanged
NamedSource(k, w, h, c) ==
    CASE k = 2 -> <<w - 1 - c[1], c[2]>>
      [] k = 3 -> <<w - 1 - c[1], h - 1 - c[2]>>
      [] k = 4 -> <<c[1], h - 1 - c[2]>>
      [] k = 5 -> <<c[2], c[1]>>
      [] k = 6 -> <<c[2], h - 1 - c[1]>>
      [] k = 7 -> <<w - 1 - c[2], h - 1 - c[1]>>
      [] k = 8 -> <<w - 1 - c[2], c[1]>>
      [] OTHER -> c
\* the tag that counts for an upload: that of a JPEG, none for PNG and WebP
TagOf(p) ==
    IF op[p].mime = "image/jpeg" THEN ExifOrientation(op[p].data) ELSE NoExif
Succeeded(p) ==
    ret[p].kind = "Upload" /\ ret[p].done /\ ret[p].hasRes

\* C22: for a JPEG with EXIF orientation 1..8 Process encodes the decoded
\* grid transformed by identity, horizontal flip, rotation by 180, vertical
\* flip, transpose, rotation by 270, transverse, rotation by 90; without an
\* EXIF block, without the tag, with any other tag value and for PNG and
\* WebP the grid is unchanged; the width and height are (w, h) for tags 1-4
\* or none and (h, w) for tags 5-8, and the result of Upload and the stored
\* record carry exactly these.
C22_Orientation ==
    \A p \in Procs :
        Succeeded(p) =>
            LET src == decodeImage(op[p].data, op[p].mime)
                out == Oriented(op[p].data, op[p].mime)
                k == TagOf(p)
                turned == k \in 5..8
                w == IF turned THEN src.h ELSE src.w
                h == IF turned THEN src.w ELSE src.h
            IN
            /\ out.w = w /\ out.h = h
            /\ DOMAIN out.px = Coords(w, h)
            /\ \A c \in Coords(w, h) : out.px[c] = NamedSource(k, src.w, src.h, c)
            /\ ret[p].res.Width = w /\ ret[p].res.Height = h
            /\ ret[p].res.ID \in DOMAIN images
            /\ images[ret[p].res.ID].Width = w /\ images[ret[p].res.ID].Height = h

\* C22 witness: the upload of a 3x2 JPEG with orientation 6 has returned a
\* result and left a record that are 2 wide and 3 high.
C22_Witness ==
    /\ Succeeded(Main)
    /\ op[Main].mime = "image/jpeg" /\ ExifOrientation(op[Main].data) = 6
    /\ decodeImage(op[Main].data, op[Main].mime).w = 3
    /\ decodeImage(op[Main].data, op[Main].mime).h = 2
    /\ ret[Main].res.Width = 2 /\ ret[Main].res.Height = 3
    /\ images[ret[Main].res.ID].Width = 2 /\ images[ret[Main].res.ID].Height = 3

====
